---- MODULE Spec2Model ----
(***************************************************************************)
(* A model of the job store and the per-job runner of decomp_agent:        *)
(*   models/db.py            Function rows, record_attempt,                *)
(*                           sync_from_report, candidate eligibility       *)
(*   orchestrator/runner.py  _get_file_lock and run_function, step by step *)
(* Threads call run_function concurrently (pool threads of a parallel     *)
(* batch) or one at a time on the main thread (cli `run NAME`, a          *)
(* sequential batch), where KeyboardInterrupt / SystemExit can arrive.    *)
(* The verification agent (run_agent) is an external collaborator: it may *)
(* rewrite the source file any number of times, then returns a result or  *)
(* raises.                                                                 *)
(***************************************************************************)
EXTENDS Integers, Sequences, FiniteSets, TLC

\* ------------------------------------------------------------------ universe

\* Threads that may execute run_function; the first is the main thread.
Workers == {"w1", "w2"}

MainThread == "w1"

\* Function.name values of the report, and each one's source_file.
Names == {"f1", "f2", "f3"}

source_file == [n \in Names |-> IF n = "f3" THEN "b.c" ELSE "a.c"]

Files == {source_file[n] : n \in Names}

\* Match percentages a report or an agent result may carry.
Pcts == {50, 100}

\* A file's bytes are modelled by the set of functions whose body has been
\* rewritten in it; Absent is "the path does not exist".
Absent == {"<absent>"}

ContentsOf(s) == SUBSET {n \in Names : source_file[n] = s}

\* Source files that may be missing from the checkout when the program starts.
MaybeMissing == {"a.c"}

\* saved_source = None (no snapshot taken, or the file did not exist).
None == {"<none>"}

\* max_attempts default of the candidate queries.
MaxAttempts == 3

\* Largest attempts value the model lets a run start from.
AttemptCap == 2

\* Parameters record_attempt declares, and positional arguments run_function
\* passes to it.
RecordAttemptParams == 3

RecordAttemptArgs == 4

Statuses == {"pending", "in_progress", "matched", "failed", "skipped"}

NoRow == [exists |-> FALSE, status |-> "pending", attempts |-> 0, cur |-> 0,
          init |-> 0, matched_at |-> FALSE]

\* AgentResult() as the dataclass defaults build it (no result yet).
NoResult == [set |-> FALSE, matched |-> FALSE, best |-> 0, error |-> FALSE,
             reason |-> ""]

\* AgentResult(error=str(e), termination_reason="agent_crash").
CrashResult == [set |-> TRUE, matched |-> FALSE, best |-> 0, error |-> TRUE,
                reason |-> "agent_crash"]

\* What run_agent can return (agent/loop.py): a match found by
\* compile_and_check has best = 100, an explicit mark_complete reports a match
\* at any percentage; an unmatched run ends below 100 with or without an error.
AgentResults ==
    { [set |-> TRUE, matched |-> TRUE, best |-> b, error |-> FALSE, reason |-> "matched"] : b \in Pcts }
    \cup { [set |-> TRUE, matched |-> FALSE, best |-> 50, error |-> FALSE, reason |-> "max_iterations"],
           [set |-> TRUE, matched |-> FALSE, best |-> 50, error |-> TRUE, reason |-> "api_error"] }

Max(a, b) == IF a > b THEN a ELSE b

\* EXCLUDED_LIBRARIES of models/db.py.
EXCLUDED_LIBRARIES == {"thp", "Gekko runtime", "<unknown>"}

\* The columns of a Function that never change after the insert: size,
\* address and library. Function.id follows the name (insertion order).
RowId == [n \in Names |-> CHOOSE i \in 1..3 : n = <<"f1", "f2", "f3">>[i]]

Sizes == {1, 2}

address == [n \in Names |-> IF n = "f1" THEN 2 ELSE 1]

LibrariesOf(n) ==
    IF n = "f1" THEN {"lb", "thp"} ELSE IF n = "f2" THEN {"lb", "ft"} ELSE {"lb"}

DefaultInfo == [n \in Names |-> [size |-> 1, library |-> "lb"]]

\* An optional argument left at None.
Unset == -1

AnyLibrary == "<any>"

Strategies == {"smallest_first", "best_match_first", "largest_first"}

\* Every keyword of the candidate queries at its default.
DefaultQuery ==
    [limit |-> 50, max_size |-> Unset, max_attempts |-> 3,
     strategy |-> "smallest_first", library |-> AnyLibrary,
     min_match |-> Unset, max_match |-> Unset]

NoQuery == [op |-> "none", q |-> DefaultQuery]

\* BatchResult() and the counters a `+=` reads and writes.
NoCounters == [attempted |-> 0, matched |-> 0, failed |-> 0, total_tokens |-> 0,
               total_cost |-> 0]

NoBatch == [attempted |-> 0, matched |-> 0, failed |-> 0, total_tokens |-> 0,
            total_cost |-> 0, results |-> {}, errors |-> {}]

\* A Function that is no candidate of the batch.
NoJob == [state |-> "none", ran |-> FALSE, reason |-> "", cost |-> 0, tokens |-> 0,
          spent_cost |-> 0, spent_tokens |-> 0]

\* run_batch not called.
NoRun == [phase |-> "none", origin |-> "", limit |-> 50, workers |-> 1,
          budget |-> Unset, config |-> "", auto_approve |-> TRUE, answer |-> ""]

\* BatchStatus() of web/routers/batch.py.
NoWeb == [running |-> FALSE, cancel_event |-> FALSE]

\* The dollars and the tokens one run of the agent costs.
JobCost == 1

JobTokens == 1

\* The configurations run_batch is called with: Config as config.py declares
\* it, and one that also carries orchestration.max_attempts_per_function.
Configs == {"declared", "extended"}

\* The attributes OrchestrationConfig declares and the one run_batch reads.
OrchestrationFields ==
    {"db_path", "max_function_size", "batch_size", "default_workers", "default_budget"}

\* The keywords run_batch declares and those start_batch passes.
RunBatchKeywords ==
    {"limit", "max_size", "workers", "budget", "strategy", "library", "min_match",
     "max_match", "auto_approve"}

StartBatchKeywords == RunBatchKeywords \cup {"cancel_flag"}

\* The values of `limit` a batch is started with: below the number of
\* Functions, and the default of run_batch.
Limits == {2, 50}

\* The arguments of a batch: limit, workers, budget, the configuration, --yes.
BatchArgs ==
    [limit : Limits, workers : {1, 2}, budget : {Unset, 0, 1}, config : Configs,
     auto_approve : BOOLEAN]

\* No pure function called.
NoCalc == [op |-> "none"]

VARIABLES
    fn,           \* Function table: name -> row
    attempt_rows, \* Attempt table: name -> number of rows owned by the Function
    file,         \* source tree: source_file -> its bytes, or Absent
    file_locks,   \* _file_locks: source_file -> lock id, 0 = no entry
    lock_owner,   \* every threading.Lock created: id -> holder or "free"
    guard,        \* holder of _file_locks_guard, or "free"
    pc,           \* per thread: position inside run_function
    func,         \* per thread: the Function being run
    mode,         \* per thread: "pool" or "main" (interruptible)
    file_lock,    \* per thread: the lock _get_file_lock returned, 0 = none yet
    saved_source, \* per thread: the snapshot, or None
    result,       \* per thread: the AgentResult, or NoResult
    edited,       \* per thread: run_agent rewrote the file during this run
    info,         \* Function table: name -> the size and library columns
    asked,        \* the candidate query in progress: function called, arguments
    candidates,   \* what that query returned, a list of names
    brun,         \* run_batch: its arguments and the position of its thread
    job,          \* per candidate: its future and the FunctionResult of _run_one
    batch,        \* the BatchResult shared by the jobs
    cost_lock,    \* holder of cost_lock, or "free"
    tmp,          \* per thread: the counters read by a `+=` not yet written back
    web,          \* BatchStatus of the web router: running, cancel_event
    calc          \* a call of a pure function: its name, arguments and outcome

vars == <<fn, attempt_rows, file, file_locks, lock_owner, guard, pc, func, mode,
          file_lock, saved_source, result, edited, info, asked, candidates,
          brun, job, batch, cost_lock, tmp, web, calc>>

\* What neither the store's writers nor run_function touch.
outside == <<info, asked, candidates, brun, job, batch, cost_lock, tmp, web, calc>>

store == <<fn, attempt_rows>>

locks == <<file_locks, lock_owner, guard>>

\* ------------------------------------------------------------------ models/db.py

\* Variant: the reported percentage overwrites current_match_pct.
RecordAttemptOverwrite(row, res) ==
    [row EXCEPT !.attempts = row.attempts + 1, !.cur = res.best]

\* record_attempt's update of the Function row.
RecordAttempt(row, res) ==
    [row EXCEPT !.attempts = row.attempts + 1,
                !.cur = IF res.best > row.cur THEN res.best ELSE row.cur]

\* Variant: the WHERE clause also takes rows that are in_progress.
EligibleInProgress(row) ==
    /\ row.exists
    /\ row.status \in {"pending", "in_progress"}
    /\ row.attempts < MaxAttempts
    /\ row.cur < 100

\* The WHERE clause shared by get_next_candidate and get_candidate_batch
\* (status, attempts and match percentage; no optional filter given).
Eligible(row) ==
    /\ row.exists
    /\ row.status = "pending"
    /\ row.attempts < MaxAttempts
    /\ row.cur < 100

\* sync_from_report: the row inserted for a name the table does not hold.
SyncInsert(pct) ==
    [exists |-> TRUE, status |-> "pending", attempts |-> 0, cur |-> pct,
     init |-> pct, matched_at |-> FALSE]

\* Variant: a row marked matched by the report gets no matched_at.
SyncUpdateNoTimestamp(row, pct) ==
    LET marks == pct = 100 /\ row.status = "pending" IN
    [row EXCEPT !.init = pct,
                !.cur = IF pct > row.cur THEN pct ELSE row.cur,
                !.status = IF marks THEN "matched" ELSE row.status]

\* Variant: the report overwrites initial_match_pct and leaves
\* current_match_pct alone.
SyncUpdateInitOnly(row, pct) ==
    LET marks == pct = 100 /\ row.status = "pending" IN
    [row EXCEPT !.init = pct,
                !.status = IF marks THEN "matched" ELSE row.status,
                !.matched_at = IF marks THEN TRUE ELSE row.matched_at]

\* sync_from_report: the update of an existing row.
SyncUpdate(row, pct) ==
    LET marks == pct = 100 /\ row.status = "pending" IN
    [row EXCEPT !.init = pct,
                !.cur = IF pct > row.cur THEN pct ELSE row.cur,
                !.status = IF marks THEN "matched" ELSE row.status,
                !.matched_at = IF marks THEN TRUE ELSE row.matched_at]

SyncRow(row, pct) == IF row.exists THEN SyncUpdate(row, pct) ELSE SyncInsert(pct)

\* sync_from_report(session, functions): upsert every entry, one commit.
SyncFromReport(report) ==
    /\ fn' = [n \in Names |-> IF report[n] = -1 THEN fn[n] ELSE SyncRow(fn[n], report[n])]
    /\ UNCHANGED <<attempt_rows, file, locks, pc, func, mode, file_lock,
                   saved_source, result, edited>>
    /\ UNCHANGED outside

\* record_attempt(session, function, result) called with the declared
\* parameters: one Attempt row, the Function updated, one commit.
RecordAttemptCall(n, res) ==
    /\ fn[n].exists
    /\ fn[n].attempts < AttemptCap
    /\ fn' = [fn EXCEPT ![n] = RecordAttempt(fn[n], res)]
    /\ attempt_rows' = [attempt_rows EXCEPT ![n] = @ + 1]
    /\ UNCHANGED <<file, locks, pc, func, mode, file_lock, saved_source, result, edited>>
    /\ UNCHANGED outside

\* The four conditions every candidate query starts from (db.py:91-96,
\* 199-204).
BaseWhere(n, max_attempts) ==
    /\ fn[n].exists
    /\ fn[n].status \in {"pending"}
    /\ fn[n].attempts < max_attempts
    /\ fn[n].cur < 100
    /\ info[n].library \notin EXCLUDED_LIBRARIES

\* Variant: the size filter keeps sizes strictly below max_size.
SizeWhereStrict(n, max_size) ==
    max_size # Unset => info[n].size < max_size

\* `if max_size is not None: stmt.where(Function.size <= max_size)`.
SizeWhere(n, max_size) ==
    max_size # Unset => info[n].size <= max_size

\* The filters get_candidate_batch adds to those: library, min_match, max_match.
BatchWhere(n, q) ==
    /\ q.library # AnyLibrary => info[n].library = q.library
    /\ q.min_match # Unset => fn[n].cur >= q.min_match
    /\ q.max_match # Unset => fn[n].cur <= q.max_match

\* Variant: best_match_first sorts current_match_pct ascending.
BestMatchAscending(a, b) ==
    \/ fn[a].cur < fn[b].cur
    \/ fn[a].cur = fn[b].cur /\ info[a].size < info[b].size
    \/ fn[a].cur = fn[b].cur /\ info[a].size = info[b].size /\ RowId[a] < RowId[b]

\* order_by(Function.current_match_pct.desc(), Function.size): a comes before
\* b. Rows equal under the keys come in the table's scan order (id).
BestMatchFirst(a, b) ==
    \/ fn[a].cur > fn[b].cur
    \/ fn[a].cur = fn[b].cur /\ info[a].size < info[b].size
    \/ fn[a].cur = fn[b].cur /\ info[a].size = info[b].size /\ RowId[a] < RowId[b]

\* order_by(Function.size, Function.address): a comes before b.
SmallestFirst(a, b) ==
    \/ info[a].size < info[b].size
    \/ info[a].size = info[b].size /\ address[a] < address[b]
    \/ info[a].size = info[b].size /\ address[a] = address[b] /\ RowId[a] < RowId[b]

\* The if / elif / else on strategy (db.py:100-105, 214-219).
Before(a, b, strategy) ==
    IF strategy = "smallest_first" THEN SmallestFirst(a, b)
    ELSE IF strategy = "best_match_first" THEN BestMatchFirst(a, b)
    ELSE SmallestFirst(a, b)

\* The rows of S in the order of the ORDER BY clause.
RECURSIVE OrderBy(_, _)
OrderBy(S, strategy) ==
    IF S = {} THEN <<>>
    ELSE LET first == CHOOSE a \in S : \A b \in S \ {a} : Before(a, b, strategy)
         IN <<first>> \o OrderBy(S \ {first}, strategy)

\* stmt.limit(limit).
\* Variant: the statement returns one row more than the limit.
LimitPlusOne(rows, limit) ==
    SubSeq(rows, 1, IF limit + 1 < Len(rows) THEN limit + 1 ELSE Len(rows))

\* .limit(limit) of the statement.
Limit(rows, limit) ==
    SubSeq(rows, 1, IF limit < Len(rows) THEN limit ELSE Len(rows))

\* get_candidate_batch(session, limit=, max_size=, max_attempts=, strategy=,
\* library=, min_match=, max_match=).
GetCandidateBatch(q) ==
    Limit(OrderBy({n \in Names : /\ BaseWhere(n, q.max_attempts)
                                 /\ SizeWhere(n, q.max_size)
                                 /\ BatchWhere(n, q)},
                  q.strategy),
          q.limit)

\* get_next_candidate(session, max_size=, max_attempts=, strategy=): the
\* first row of the statement, or None (the empty list here).
GetNextCandidate(q) ==
    Limit(OrderBy({n \in Names : /\ BaseWhere(n, q.max_attempts)
                                 /\ SizeWhere(n, q.max_size)},
                  q.strategy),
          1)

\* A caller runs get_candidate_batch on the table.
GetCandidateBatchCall(q) ==
    /\ asked = NoQuery
    /\ asked' = [op |-> "get_candidate_batch", q |-> q]
    /\ candidates' = GetCandidateBatch(q)
    /\ UNCHANGED <<store, file, locks, pc, func, mode, file_lock, saved_source,
                   result, edited, info, calc, brun, job, batch, cost_lock, tmp, web>>

\* A caller runs get_next_candidate on the table.
GetNextCandidateCall(q) ==
    /\ asked = NoQuery
    /\ asked' = [op |-> "get_next_candidate", q |-> q]
    /\ candidates' = GetNextCandidate(q)
    /\ UNCHANGED <<store, file, locks, pc, func, mode, file_lock, saved_source,
                   result, edited, info, calc, brun, job, batch, cost_lock, tmp, web>>

\* ------------------------------------------------------------------ runner.py

\* Variant: a thread is handed a job while it runs another.
IdleAlways(w) == TRUE

\* The thread is in no job.
Idle(w) == pc[w] = "idle"

\* Variant: _get_file_lock without its guard.
GuardNeverHeld == TRUE

\* _file_locks_guard can be taken.
GuardFree == guard = "free"

\* Variant: `with file_lock:` never blocks.
LockFreeAlways(id) == TRUE

\* `with file_lock:` can be entered.
LockFree(id) == lock_owner[id] = "free"

\* The thread's locals when it is not inside run_function.
Leave(w) ==
    /\ pc' = [pc EXCEPT ![w] = "idle"]
    /\ mode' = [mode EXCEPT ![w] = "pool"]
    /\ file_lock' = [file_lock EXCEPT ![w] = 0]
    /\ saved_source' = [saved_source EXCEPT ![w] = None]
    /\ result' = [result EXCEPT ![w] = NoResult]
    /\ edited' = [edited EXCEPT ![w] = FALSE]
    /\ func' = [func EXCEPT ![w] = "f1"]

\* Leaving the `with file_lock:` block by any route releases the lock.
Released(w) ==
    IF file_lock[w] # 0 /\ lock_owner[file_lock[w]] = w
    THEN [lock_owner EXCEPT ![file_lock[w]] = "free"]
    ELSE lock_owner

\* run_function lines 55-63: commit status = in_progress.
MarkInProgress(w, n, m) ==
    /\ fn' = [fn EXCEPT ![n].status = "in_progress"]
    /\ pc' = [pc EXCEPT ![w] = "guard"]
    /\ func' = [func EXCEPT ![w] = n]
    /\ mode' = [mode EXCEPT ![w] = m]
    /\ UNCHANGED <<attempt_rows, file, locks, file_lock, saved_source, result, edited>>
    /\ UNCHANGED outside

\* A pool thread of a parallel batch starts a prefetched candidate.
StartPool(w, n) ==
    /\ Idle(w)
    /\ \A v \in Workers : ~Idle(v) => mode[v] = "pool" /\ func[v] # n
    /\ Eligible(fn[n])
    /\ info[n].library \notin EXCLUDED_LIBRARIES
    /\ fn[n].attempts <= AttemptCap
    /\ MarkInProgress(w, n, "pool")

\* The main thread runs one Function (cli `run NAME` takes any row; a
\* sequential batch takes a candidate); no other thread is running.
StartMain(w, n) ==
    /\ w = MainThread
    /\ \A v \in Workers : Idle(v)
    /\ fn[n].exists
    /\ fn[n].attempts <= AttemptCap
    /\ MarkInProgress(w, n, "main")

\* A sequential batch runs its next candidate on the main thread: a row the
\* candidate query selects (db.py:199-204, library filter 186).
StartCandidate(w, n) ==
    /\ Eligible(fn[n])
    /\ info[n].library \notin EXCLUDED_LIBRARIES
    /\ StartMain(w, n)

\* _get_file_lock lines 29-30: enter `with _file_locks_guard` and test
\* `source_file not in _file_locks`.
GuardAcquire(w) ==
    /\ pc[w] = "guard"
    /\ GuardFree
    /\ guard' = w
    /\ pc' = [pc EXCEPT ![w] = IF file_locks[source_file[func[w]]] = 0
                                THEN "create" ELSE "return"]
    /\ UNCHANGED <<store, file, file_locks, lock_owner, func, mode, file_lock,
                   saved_source, result, edited>>
    /\ UNCHANGED outside

\* _get_file_lock line 31: `_file_locks[source_file] = threading.Lock()`.
LockCreate(w) ==
    /\ pc[w] = "create"
    /\ lock_owner' = Append(lock_owner, "free")
    /\ file_locks' = [file_locks EXCEPT ![source_file[func[w]]] = Len(lock_owner) + 1]
    /\ pc' = [pc EXCEPT ![w] = "return"]
    /\ UNCHANGED <<store, file, guard, func, mode, file_lock, saved_source,
                   result, edited>>
    /\ UNCHANGED outside

\* _get_file_lock line 32: return the entry, leaving the guard.
LockReturn(w) ==
    /\ pc[w] = "return"
    /\ file_lock' = [file_lock EXCEPT ![w] = file_locks[source_file[func[w]]]]
    /\ guard' = "free"
    /\ pc' = [pc EXCEPT ![w] = "acquire"]
    /\ UNCHANGED <<store, file, file_locks, lock_owner, func, mode, saved_source,
                   result, edited>>
    /\ UNCHANGED outside

\* run_function line 78: `with file_lock:` blocks until the lock is free.
AcquireLock(w) ==
    /\ pc[w] = "acquire"
    /\ LockFree(file_lock[w])
    /\ lock_owner' = [lock_owner EXCEPT ![file_lock[w]] = w]
    /\ pc' = [pc EXCEPT ![w] = "snapshot"]
    /\ UNCHANGED <<store, file, file_locks, guard, func, mode, file_lock,
                   saved_source, result, edited>>
    /\ UNCHANGED outside

\* run_function line 81: `src_path.read_bytes() if src_path.exists() else None`.
SnapshotOf(bytes) == IF bytes = Absent THEN None ELSE bytes

Snapshot(w) ==
    /\ pc[w] = "snapshot"
    /\ saved_source' = [saved_source EXCEPT ![w] = SnapshotOf(file[source_file[func[w]]])]
    /\ pc' = [pc EXCEPT ![w] = "agent"]
    /\ UNCHANGED <<store, file, locks, func, mode, file_lock, result, edited>>
    /\ UNCHANGED outside

\* run_function line 81: read_bytes raises (OSError); nothing in run_function
\* catches it, the `with` releases the lock and the exception leaves.
SnapshotFail(w) ==
    /\ pc[w] = "snapshot"
    /\ lock_owner' = Released(w)
    /\ Leave(w)
    /\ UNCHANGED <<store, file, file_locks, guard>>
    /\ UNCHANGED outside

\* run_agent at work (run_function line 85): one write of the job's source
\* file. The collaborator is not confined to write_function, which rewrites
\* one function of an existing file: a write may also create the file.
AgentEdit(w, bytes) ==
    /\ pc[w] = "agent"
    /\ bytes \in ContentsOf(source_file[func[w]])
    /\ bytes # file[source_file[func[w]]]
    /\ file' = [file EXCEPT ![source_file[func[w]]] = bytes]
    /\ edited' = [edited EXCEPT ![w] = TRUE]
    /\ UNCHANGED <<store, locks, pc, func, mode, file_lock, saved_source, result>>
    /\ UNCHANGED outside

\* run_function line 85: run_agent returns its result.
AgentReturn(w, res) ==
    /\ pc[w] = "agent"
    /\ result' = [result EXCEPT ![w] = res]
    /\ pc' = [pc EXCEPT ![w] = "revert"]
    /\ UNCHANGED <<store, file, locks, func, mode, file_lock, saved_source, edited>>
    /\ UNCHANGED outside

\* run_function lines 86-91: `except Exception` builds the agent_crash result.
AgentRaise(w) ==
    /\ pc[w] = "agent"
    /\ result' = [result EXCEPT ![w] = CrashResult]
    /\ pc' = [pc EXCEPT ![w] = "revert"]
    /\ UNCHANGED <<store, file, locks, func, mode, file_lock, saved_source, edited>>
    /\ UNCHANGED outside

\* Variant: the snapshot is written back after a match too.
RevertedAlways(res, saved, bytes) ==
    IF saved # None THEN saved ELSE bytes

\* run_function lines 94-95: the bytes of the file after the revert step.
Reverted(res, saved, bytes) ==
    IF ~res.matched /\ saved # None THEN saved ELSE bytes

Revert(w) ==
    /\ pc[w] = "revert"
    /\ file' = [file EXCEPT ![source_file[func[w]]] =
                    Reverted(result[w], saved_source[w], @)]
    /\ pc' = [pc EXCEPT ![w] = "unlock"]
    /\ UNCHANGED <<store, locks, func, mode, file_lock, saved_source, result, edited>>
    /\ UNCHANGED outside

\* run_function line 101/103: the `with file_lock:` block ends.
Unlock(w) ==
    /\ pc[w] = "unlock"
    /\ lock_owner' = Released(w)
    /\ pc' = [pc EXCEPT ![w] = "record"]
    /\ UNCHANGED <<store, file, file_locks, guard, func, mode, file_lock,
                   saved_source, result, edited>>
    /\ UNCHANGED outside

\* Python binds a call's positional arguments before the callee runs: more
\* arguments than parameters raise TypeError.
CallBinds(params, args) == args <= params

\* run_function lines 110-114: the status written after record_attempt.
StatusAfter(row, res) ==
    IF res.matched
    THEN [row EXCEPT !.status = "matched", !.matched_at = TRUE]
    ELSE [row EXCEPT !.status = "pending"]

\* run_function lines 104-127: calculate_cost, refresh the row,
\* record_attempt(session, function, result, cost), status, commit, return.
\* When the call does not bind, TypeError leaves run_function (it is neither
\* KeyboardInterrupt nor SystemExit) and the session commits nothing.
Record(w) ==
    /\ pc[w] = "record"
    /\ IF CallBinds(RecordAttemptParams, RecordAttemptArgs)
       THEN /\ fn' = [fn EXCEPT ![func[w]] = StatusAfter(RecordAttempt(@, result[w]), result[w])]
            /\ attempt_rows' = [attempt_rows EXCEPT ![func[w]] = @ + 1]
                    /\ Leave(w)
       ELSE /\ UNCHANGED store
                    /\ Leave(w)
    /\ UNCHANGED <<file, locks>>
    /\ UNCHANGED outside

\* Positions before the `try:` of line 77 (lines 61-76, _get_file_lock
\* included) and positions inside it.
BeforeTry == {"guard", "create", "return"}

InTry == {"acquire", "snapshot", "agent", "revert", "unlock", "record"}

\* KeyboardInterrupt / SystemExit reaches the main thread before line 77: no
\* handler of run_function is active, the guard's `with` is left.
InterruptBeforeTry(w) ==
    /\ pc[w] \in BeforeTry
    /\ mode[w] = "main"
    /\ guard' = IF guard = w THEN "free" ELSE guard
    /\ Leave(w)
    /\ UNCHANGED <<store, file, file_locks, lock_owner>>
    /\ UNCHANGED outside

\* KeyboardInterrupt / SystemExit inside the `try:`: the `with file_lock:`
\* block, if entered, is left and the handler of line 129 starts.
InterruptInTry(w) ==
    /\ pc[w] \in InTry
    /\ mode[w] = "main"
    /\ lock_owner' = Released(w)
    /\ pc' = [pc EXCEPT ![w] = "int_reset"]
    /\ UNCHANGED <<store, file, file_locks, guard, func, mode, file_lock,
                   saved_source, result, edited>>
    /\ UNCHANGED outside

\* run_function lines 132-137: commit status = pending.
InterruptReset(w) ==
    /\ pc[w] = "int_reset"
    /\ fn' = [fn EXCEPT ![func[w]].status = "pending"]
    /\ pc' = [pc EXCEPT ![w] = "int_restore"]
    /\ UNCHANGED <<attempt_rows, file, locks, func, mode, file_lock,
                   saved_source, result, edited>>
    /\ UNCHANGED outside

\* run_function lines 140-148: `if result is None or not result.matched`,
\* write the snapshot back when there is one, then re-raise.
InterruptRestore(w) ==
    /\ pc[w] = "int_restore"
    /\ file' = [file EXCEPT ![source_file[func[w]]] =
                    Reverted(result[w], saved_source[w], @)]
    /\ Leave(w)
    /\ UNCHANGED <<store, locks>>
    /\ UNCHANGED outside

\* ------------------------------------------------------------------ batch.py

\* run_function as one step of a batch job, the composition of the steps
\* above: in_progress, snapshot, the agent leaving `bytes` in the file and
\* ending with `res`, revert, then the recording code.
RunFunctionRaises == ~CallBinds(RecordAttemptParams, RecordAttemptArgs)

RunFunctionRow(row, res) ==
    LET started == [row EXCEPT !.status = "in_progress"] IN
    IF RunFunctionRaises THEN started ELSE StatusAfter(RecordAttempt(started, res), res)

\* result.total_tokens: the crash result is built with the dataclass default.
TokensOf(res) == IF res.reason = "agent_crash" THEN 0 ELSE JobTokens

\* calculate_cost(result, config.pricing): token counts times the prices.
calculate_cost(res) == IF res.reason = "agent_crash" THEN 0 ELSE JobCost

\* Variant: the budget test trips only above the budget.
BudgetExceededAbove(total_cost, budget) ==
    budget # Unset /\ total_cost > budget

\* `budget is not None and batch.total_cost >= budget` (batch.py:65-67, 226).
BudgetExceeded(total_cost, budget) ==
    budget # Unset /\ total_cost >= budget

\* `with cost_lock:` can be entered.
CostLockFree == cost_lock = "free"

\* The candidates still waiting, and the first of them in the list's order.
Queued == {i \in 1..Len(candidates) : job[candidates[i]].state = "queued"}

FirstQueued == candidates[CHOOSE i \in Queued : \A j \in Queued : i <= j]

\* run_batch ends (returns or raises); a batch of the web router then runs
\* the `finally: status.finish()` of its thread.
Finish ==
    web' = IF brun.origin = "web" THEN [web EXCEPT !.running = FALSE] ELSE web

EndBatch(how) ==
    /\ brun' = [brun EXCEPT !.phase = how]
    /\ Finish

\* run_batch is called: by cli `batch` with the loaded Config ("declared"),
\* or by a program whose configuration object carries
\* orchestration.max_attempts_per_function ("extended", as _mock_config of
\* the tests does).
StartBatch(a) ==
    /\ brun.phase = "none"
    /\ ~web.running
    /\ brun' = [phase |-> "start", origin |-> "call", limit |-> a.limit,
                workers |-> a.workers, budget |-> a.budget, config |-> a.config,
                auto_approve |-> a.auto_approve, answer |-> ""]
    /\ UNCHANGED <<store, file, locks, pc, func, mode, file_lock, saved_source,
                   result, edited, info, calc, asked, candidates, job, batch, cost_lock,
                   tmp, web>>

\* start_batch (web): 409 when a batch is running, else status.reset and a
\* thread that will call run_batch with the loaded Config. One request at a
\* time; the handler's own steps, for requests that overlap, are in the
\* web/routers/batch.py section below.
StartBatchWeb(a) ==
    /\ brun.phase = "none"
    /\ ~web.running
    /\ web' = [running |-> TRUE, cancel_event |-> FALSE]
    /\ brun' = [phase |-> "thread", origin |-> "web", limit |-> a.limit,
                workers |-> a.workers, budget |-> a.budget, config |-> "declared",
                auto_approve |-> TRUE, answer |-> ""]
    /\ UNCHANGED <<store, file, locks, pc, func, mode, file_lock, saved_source,
                   result, edited, info, calc, asked, candidates, job, batch, cost_lock, tmp>>

\* cancel_batch (web): 409 when no batch is running, else cancel_event.set().
CancelBatch ==
    /\ web.running
    /\ web' = [web EXCEPT !.cancel_event = TRUE]
    /\ UNCHANGED <<store, file, locks, pc, func, mode, file_lock, saved_source,
                   result, edited, info, calc, asked, candidates, brun, job, batch,
                   cost_lock, tmp>>

\* start_batch._run lines 94-118: the call run_batch(..., cancel_flag=...).
\* A keyword run_batch does not declare raises TypeError before run_batch
\* runs; `except Exception` logs it and `finally` calls status.finish().
BatchThread ==
    /\ brun.phase = "thread"
    /\ IF StartBatchKeywords \subseteq RunBatchKeywords
       THEN brun' = [brun EXCEPT !.phase = "start"] /\ UNCHANGED web
       ELSE EndBatch("raised")
    /\ UNCHANGED <<store, file, locks, pc, func, mode, file_lock, saved_source,
                   result, edited, info, calc, asked, candidates, job, batch, cost_lock, tmp>>

\* The query of run_batch lines 170-179, the filters left at their defaults.
BatchQuery(limit) ==
    [DefaultQuery EXCEPT !.limit = limit, !.max_attempts = MaxAttempts]

\* run_batch lines 154-187: read config.orchestration.max_attempts_per_function
\* (AttributeError on a configuration without it), fetch the candidates,
\* return the empty BatchResult when there are none.
BatchFetch ==
    /\ brun.phase = "start"
    /\ IF brun.config = "declared" /\ "max_attempts_per_function" \notin OrchestrationFields
       THEN EndBatch("raised") /\ UNCHANGED candidates
       ELSE LET found == GetCandidateBatch(BatchQuery(brun.limit)) IN
            /\ candidates' = found
            /\ IF found = <<>>
               THEN EndBatch("returned")
               ELSE brun' = [brun EXCEPT !.phase = "confirm"] /\ UNCHANGED web
    /\ UNCHANGED <<store, file, locks, pc, func, mode, file_lock, saved_source,
                   result, edited, info, calc, asked, job, batch, cost_lock, tmp>>

\* Variant: the batch proceeds whatever the answer.
ProceedsAlways(auto_approve, yes) == TRUE

\* run_batch lines 212-216: the batch proceeds when it is auto-approved or
\* click.confirm("Proceed?") is answered yes.
Proceeds(auto_approve, yes) == auto_approve \/ yes

\* What click.confirm returned, "" when it was not called.
AnswerOf(auto_approve, yes) ==
    IF auto_approve THEN "" ELSE IF yes THEN "yes" ELSE "no"

\* run_batch lines 211-238: the confirmation, then the sequential loop is
\* entered or every candidate is submitted to the executor.
BatchConfirm(yes) ==
    /\ brun.phase = "confirm"
    /\ IF ~Proceeds(brun.auto_approve, yes)
       THEN /\ brun' = [brun EXCEPT !.phase = "returned",
                                    !.answer = AnswerOf(brun.auto_approve, yes)]
            /\ Finish
            /\ UNCHANGED job
       ELSE /\ brun' = [brun EXCEPT !.phase = IF brun.workers <= 1 THEN "seq" ELSE "par",
                                    !.answer = AnswerOf(brun.auto_approve, yes)]
            /\ job' = [n \in Names |->
                          IF \E i \in 1..Len(candidates) : candidates[i] = n
                          THEN [NoJob EXCEPT !.state = "queued"] ELSE NoJob]
            /\ UNCHANGED web
    /\ UNCHANGED <<store, file, locks, pc, func, mode, file_lock, saved_source,
                   result, edited, info, calc, asked, candidates, batch, cost_lock, tmp>>

\* A thread enters _run_one for candidate n.
EnterRunOne(w, n) ==
    /\ pc' = [pc EXCEPT ![w] = "budget"]
    /\ func' = [func EXCEPT ![w] = n]
    /\ job' = [job EXCEPT ![n].state = "running"]

\* run_batch lines 224-229, one turn of the sequential loop on the calling
\* thread: leave the loop when the list is exhausted or the budget test
\* trips, else call _run_one.
SeqNext(w) ==
    /\ brun.phase = "seq"
    /\ w = MainThread
    /\ Idle(w)
    /\ IF Queued = {} \/ BudgetExceeded(batch.total_cost, brun.budget)
       THEN EndBatch("returned") /\ UNCHANGED <<pc, func, job>>
       ELSE EnterRunOne(w, FirstQueued) /\ UNCHANGED <<brun, web>>
    /\ UNCHANGED <<store, file, locks, mode, file_lock, saved_source, result,
                   edited, info, calc, asked, candidates, batch, cost_lock, tmp>>

\* An idle thread of the executor takes the next submitted job.
PoolTake(w) ==
    /\ brun.phase = "par"
    /\ Idle(w)
    /\ Queued # {}
    /\ EnterRunOne(w, FirstQueued)
    /\ UNCHANGED <<store, file, locks, mode, file_lock, saved_source, result,
                   edited, info, calc, asked, candidates, brun, batch, cost_lock, tmp, web>>

\* _run_one lines 64-72: without a budget go on; with one, read
\* batch.total_cost under cost_lock and return the budget_exceeded result
\* when the test trips.
BudgetCheck(w) ==
    /\ pc[w] = "budget"
    /\ brun.budget # Unset => CostLockFree
    /\ IF BudgetExceeded(batch.total_cost, brun.budget)
       THEN /\ job' = [job EXCEPT ![func[w]] =
                          [@ EXCEPT !.state = "skipped", !.reason = "budget_exceeded"]]
            /\ pc' = [pc EXCEPT ![w] = "idle"]
            /\ func' = [func EXCEPT ![w] = "f1"]
       ELSE /\ pc' = [pc EXCEPT ![w] = "announce"]
            /\ UNCHANGED <<job, func>>
    /\ UNCHANGED <<store, file, locks, mode, file_lock, saved_source, result,
                   edited, info, calc, asked, candidates, brun, batch, cost_lock, tmp, web>>

\* _run_one lines 74-78: the log line and the console line of the job.
Announce(w) ==
    /\ pc[w] = "announce"
    /\ pc' = [pc EXCEPT ![w] = "run"]
    /\ UNCHANGED <<store, file, locks, func, mode, file_lock, saved_source, result,
                   edited, info, calc, asked, candidates, brun, job, batch, cost_lock,
                   tmp, web>>

\* _run_one lines 74-78: console.print raises (the output stream is closed).
\* No handler of _run_one is active: the exception leaves _run_one, and in
\* the sequential loop it leaves run_batch through line 229.
AnnounceFail(w) ==
    /\ pc[w] = "announce"
    /\ job' = [job EXCEPT ![func[w]] = [@ EXCEPT !.state = "raised"]]
    /\ pc' = [pc EXCEPT ![w] = "idle"]
    /\ func' = [func EXCEPT ![w] = "f1"]
    /\ IF brun.phase = "seq" THEN EndBatch("raised") ELSE UNCHANGED <<brun, web>>
    /\ UNCHANGED <<store, file, locks, mode, file_lock, saved_source, result,
                   edited, info, calc, asked, candidates, batch, cost_lock, tmp>>

\* _run_one lines 80-84: run_function(function, config, engine) either
\* returns the result or raises into `except Exception`.
RunFunction(w, res, bytes) ==
    /\ pc[w] = "run"
    /\ LET n == func[w]
           s == source_file[n]
       IN /\ bytes \in ContentsOf(s) \cup {file[s]}
          /\ fn' = [fn EXCEPT ![n] = RunFunctionRow(@, res)]
          /\ attempt_rows' = [attempt_rows EXCEPT ![n] = IF RunFunctionRaises THEN @ ELSE @ + 1]
          /\ file' = [file EXCEPT ![s] = Reverted(res, SnapshotOf(@), bytes)]
          /\ job' = [job EXCEPT ![n] = [@ EXCEPT !.ran = TRUE,
                                              !.spent_cost = calculate_cost(res),
                                              !.spent_tokens = TokensOf(res)]]
    /\ result' = [result EXCEPT ![w] = IF RunFunctionRaises THEN NoResult ELSE res]
    /\ pc' = [pc EXCEPT ![w] = "totals"]
    /\ UNCHANGED <<locks, func, mode, file_lock, saved_source, edited, info, calc, asked,
                   candidates, brun, batch, cost_lock, tmp, web>>

\* _run_one line 85 or 104: enter `with cost_lock:` and read the counters
\* the `+=` statements of the block add to.
TotalsEnter(w) ==
    /\ pc[w] = "totals"
    /\ CostLockFree
    /\ cost_lock' = w
    /\ tmp' = [tmp EXCEPT ![w] = [k \in DOMAIN NoCounters |-> batch[k]]]
    /\ pc' = [pc EXCEPT ![w] = "update"]
    /\ UNCHANGED <<store, file, locks, func, mode, file_lock, saved_source, result,
                   edited, info, calc, asked, candidates, brun, job, batch, web>>

\* The counters after the block of lines 86-89 (run_function raised).
CountException(c) ==
    [c EXCEPT !.failed = @ + 1, !.attempted = @ + 1]

\* The counters after the block of lines 105-114 (run_function returned res).
CountResult(c, res) ==
    [c EXCEPT !.attempted = @ + 1,
              !.total_tokens = @ + TokensOf(res),
              !.total_cost = @ + calculate_cost(res),
              !.matched = IF res.matched THEN @ + 1 ELSE @,
              !.failed = IF ~res.matched /\ res.error THEN @ + 1 ELSE @]

\* _run_one lines 86-90 or 105-129: write the counters back, append to
\* results (and errors), leave the lock and return the FunctionResult.
TotalsExit(w) ==
    /\ pc[w] = "update"
    /\ LET n == func[w]
           c == IF result[w].set THEN CountResult(tmp[w], result[w])
                                 ELSE CountException(tmp[w])
       IN /\ batch' = [k \in DOMAIN NoBatch |->
                          IF k = "results" THEN batch.results \cup {n}
                          ELSE IF k = "errors"
                               THEN (IF result[w].set THEN batch.errors
                                                      ELSE batch.errors \cup {n})
                          ELSE c[k]]
          /\ job' = [job EXCEPT ![n] =
                        IF result[w].set
                        THEN [@ EXCEPT !.state = "done", !.reason = result[w].reason,
                                       !.cost = calculate_cost(result[w]),
                                       !.tokens = TokensOf(result[w])]
                        ELSE [@ EXCEPT !.state = "done", !.reason = "exception"]]
    /\ cost_lock' = IF cost_lock = w THEN "free" ELSE cost_lock
    /\ tmp' = [tmp EXCEPT ![w] = NoCounters]
    /\ result' = [result EXCEPT ![w] = NoResult]
    /\ pc' = [pc EXCEPT ![w] = "idle"]
    /\ func' = [func EXCEPT ![w] = "f1"]
    /\ UNCHANGED <<store, file, locks, mode, file_lock, saved_source, edited, info, calc,
                   asked, candidates, brun, web>>

\* run_batch lines 232-259: the executor's `with` ends when every submitted
\* job has finished; future.result() re-raises what a job raised, else the
\* BatchResult is returned.
ParEnd ==
    /\ brun.phase = "par"
    /\ \A n \in Names : job[n].state \notin {"queued", "running"}
    /\ EndBatch(IF \E n \in Names : job[n].state = "raised" THEN "raised" ELSE "returned")
    /\ UNCHANGED <<store, file, locks, pc, func, mode, file_lock, saved_source,
                   result, edited, info, calc, asked, candidates, job, batch, cost_lock, tmp>>

\* ------------------------------------------------------------------ cost.py

\* Amounts are exact: a token count is held in units of 1/AvgScale token
\* (AvgScale a common multiple of every attempt count, so a mean is whole),
\* a price in units of 0.175 dollar per million tokens (1.75, 0.175 and 14.00
\* are 10, 1 and 80), an estimate in tenths of the product of the two.
MaxHistory == 2

\* The least common multiple of 1..k.
RECURSIVE LcmUpTo(_)
LcmUpTo(k) ==
    IF k <= 1 THEN 1
    ELSE LET multiples == {LcmUpTo(k - 1) * j : j \in 1..k}
         IN CHOOSE c \in multiples :
                c % k = 0 /\ \A d \in multiples : d % k = 0 => c <= d

AvgScale == LcmUpTo(MaxHistory)

\* PricingConfig(): the three declared prices; PricingConfig declares no
\* table of models.
DefaultPricing ==
    [input_per_million |-> 10, cached_input_per_million |-> 1, output_per_million |-> 80]

Pricings ==
    {DefaultPricing,
     [input_per_million |-> 3, cached_input_per_million |-> 0, output_per_million |-> 5]}

\* The models the pricing configuration has prices for.
PricedModels(pricing) == {}

\* calculate_cost(result, pricing): the three token counts times the three
\* prices; nothing else of the result is read.
CalculateCost(r, pricing) ==
    [raised |-> FALSE,
     value |-> r.input_tokens * pricing.input_per_million
               + r.cached_tokens * pricing.cached_input_per_million
               + r.output_tokens * pricing.output_per_million]

RECURSIVE SumTokens(_)
SumTokens(attempts) ==
    IF attempts = <<>> THEN 0
    ELSE Head(attempts).total_tokens + SumTokens(Tail(attempts))

\* avg(Attempt.total_tokens) over no row is NULL.
NoAvg == -1

\* get_historical_avg_tokens(session, size_range=(low, high)): the mean of
\* total_tokens over the Attempts joined to a Function of a size in the range;
\* None when there is no such Attempt or the mean is 0.
get_historical_avg_tokens(history, low, high) ==
    LET InRange(a) == a.size >= low /\ a.size <= high
        rows == SelectSeq(history, InRange)
    IN IF rows = <<>> \/ SumTokens(rows) = 0 THEN NoAvg
       ELSE (SumTokens(rows) * AvgScale) \div Len(rows)

\* Variant: the lower end of the range is rounded up.
SizeRangeCeil(size) ==
    [low |-> Max(1, (size + 1) \div 2), high |-> (3 * size) \div 2]

\* low = max(1, int(size * 0.5)), high = int(size * 1.5).
SizeRange(size) ==
    [low |-> Max(1, size \div 2), high |-> (3 * size) \div 2]

\* Tokens per byte of the fallback.
TokensPerByte == 15

\* estimate_function_cost(size, session, pricing).
estimate_function_cost(size, history, pricing) ==
    LET range == SizeRange(size)
        avg_tokens == get_historical_avg_tokens(history, range.low, range.high)
        total_tokens == IF avg_tokens # NoAvg THEN avg_tokens
                        ELSE size * TokensPerByte * AvgScale
        input_tokens == total_tokens * 7
        cached_tokens == total_tokens * 1
        output_tokens == total_tokens * 2
    IN input_tokens * pricing.input_per_million
       + cached_tokens * pricing.cached_input_per_million
       + output_tokens * pricing.output_per_million

\* estimate_batch_cost(candidates, session, pricing): sum() over the
\* candidates' sizes.
RECURSIVE estimate_batch_cost(_, _, _)
estimate_batch_cost(sizes, history, pricing) ==
    IF sizes = <<>> THEN 0
    ELSE estimate_function_cost(Head(sizes), history, pricing)
         + estimate_batch_cost(Tail(sizes), history, pricing)

\* A pure function of cost.py is applied to the arguments drawn.
CalculateCostCall ==
    /\ calc.op = "none" /\ calc.for = "calculate_cost"
    /\ calc' = [calc EXCEPT !.op = "calculate_cost",
                            !.out = CalculateCost(calc.result, calc.pricing)]
    /\ UNCHANGED <<store, file, locks, pc, func, mode, file_lock, saved_source, result,
                   edited, info, asked, candidates, brun, job, batch, cost_lock, tmp, web>>

EstimateFunctionCostCall ==
    /\ calc.op = "none" /\ calc.for = "estimate_function_cost"
    /\ calc' = [calc EXCEPT !.op = "estimate_function_cost",
                            !.out = estimate_function_cost(calc.size, calc.history, calc.pricing)]
    /\ UNCHANGED <<store, file, locks, pc, func, mode, file_lock, saved_source, result,
                   edited, info, asked, candidates, brun, job, batch, cost_lock, tmp, web>>

EstimateBatchCostCall ==
    /\ calc.op = "none" /\ calc.for = "estimate_batch_cost"
    /\ calc' = [calc EXCEPT !.op = "estimate_batch_cost",
                            !.out = estimate_batch_cost(calc.sizes, calc.history, calc.pricing)]
    /\ UNCHANGED <<store, file, locks, pc, func, mode, file_lock, saved_source, result,
                   edited, info, asked, candidates, brun, job, batch, cost_lock, tmp, web>>

\* ------------------------------------------------------------------ tools/disasm.py

\* A line of dtk assembly: a `.fn name` directive, a `.endfn name`
\* directive, or an instruction line with its hex bytes and its text.
Fn(name) == [kind |-> "fn", name |-> name, hex |-> <<>>, mnemonic |-> "", operands |-> ""]

EndFn(name) == [kind |-> "endfn", name |-> name, hex |-> <<>>, mnemonic |-> "", operands |-> ""]

Insn(hex, mnemonic, operands) ==
    [kind |-> "insn", name |-> "", hex |-> hex, mnemonic |-> mnemonic, operands |-> operands]

\* _FN_DIRECTIVE_RE and _ENDFN_RE match the line.
FnMatch(line) == line.kind = "fn"

\* Variant: no line is taken for a .endfn directive.
EndFnNeverMatches(line) == FALSE

EndFnMatch(line) == line.kind = "endfn"

\* extract_all_functions: the loop over the lines, (functions, current_name,
\* current_lines) carried from line to line; a text of lines joined by "\n"
\* is held as the list of its lines.
NoName == "<none>"

RECURSIVE ExtractLoop(_, _, _, _)
ExtractLoop(lines, functions, current_name, current_lines) ==
    IF lines = <<>>
    THEN IF current_name # NoName
         THEN [n \in DOMAIN functions \cup {current_name} |->
                 IF n = current_name THEN current_lines ELSE functions[n]]
         ELSE functions
    ELSE LET line == Head(lines)
             saved == [n \in DOMAIN functions \cup {current_name} |->
                         IF n = current_name THEN current_lines ELSE functions[n]]
         IN IF FnMatch(line)
            THEN ExtractLoop(Tail(lines),
                             IF current_name # NoName THEN saved ELSE functions,
                             line.name, <<line>>)
            ELSE IF EndFnMatch(line) /\ current_name # NoName
            THEN ExtractLoop(Tail(lines),
                             [n \in DOMAIN functions \cup {current_name} |->
                                IF n = current_name THEN Append(current_lines, line)
                                ELSE functions[n]],
                             NoName, <<>>)
            ELSE ExtractLoop(Tail(lines), functions, current_name,
                             IF current_name # NoName THEN Append(current_lines, line)
                             ELSE current_lines)

extract_all_functions(asm_text) == ExtractLoop(asm_text, <<>>, NoName, <<>>)

\* parse_instruction(line): (hex_bytes, instruction) of an instruction line,
\* None for every other line.
IsInstruction(line) == line.kind = "insn"

\* _parse_asm_to_tuples(asm_text).
_parse_asm_to_tuples(asm_text) == SelectSeq(asm_text, IsInstruction)

\* [b for insn in hex for b in insn.split()].
RECURSIVE Flat(_)
Flat(parsed) == IF parsed = <<>> THEN <<>> ELSE Head(parsed).hex \o Flat(Tail(parsed))

\* difflib.SequenceMatcher.find_longest_match on a[alo..ahi-1], b[blo..bhi-1]:
\* the longest common block, of those the earliest in a, of those the
\* earliest in b; <<alo, blo, 0>> when there is none.
find_longest_match(a, b, alo, ahi, blo, bhi) ==
    LET starts == {p \in (alo..(ahi - 1)) \X (blo..(bhi - 1)) : a[p[1]] = b[p[2]]}
        blocks == UNION {{<<p[1], p[2], k>> :
                            k \in {n \in 1..(ahi - p[1]) :
                                      /\ p[2] + n <= bhi
                                      /\ \A d \in 0..(n - 1) : a[p[1] + d] = b[p[2] + d]}} :
                         p \in starts}
    IN IF blocks = {} THEN <<alo, blo, 0>>
       ELSE CHOOSE x \in blocks : \A y \in blocks :
                \/ x[3] > y[3]
                \/ x[3] = y[3] /\ x[1] < y[1]
                \/ x[3] = y[3] /\ x[1] = y[1] /\ x[2] <= y[2]

\* The total size of get_matching_blocks: the longest block, then the same
\* to its left and to its right.
RECURSIVE Matches(_, _, _, _, _, _)
Matches(a, b, alo, ahi, blo, bhi) ==
    LET m == find_longest_match(a, b, alo, ahi, blo, bhi) IN
    IF m[3] = 0 THEN 0
    ELSE m[3] + Matches(a, b, alo, m[1], blo, m[2])
              + Matches(a, b, m[1] + m[3], ahi, m[2] + m[3], bhi)

\* 100.0 in the unit of the percentages, 0.0001 percent.
Hundred == 1000000

\* round(SequenceMatcher(None, a, b).ratio() * 100, 4), with
\* ratio = 2 * matches / (len(a) + len(b)) and 1.0 for two empty sequences.
RatioPercent(a, b) ==
    LET T == Len(a) + Len(b)
        M == Matches(a, b, 1, Len(a) + 1, 1, Len(b) + 1)
    IN IF T = 0 THEN Hundred ELSE (2 * (2 * M * Hundred) + T) \div (2 * T)

RECURSIVE Mnemonics(_)
Mnemonics(parsed) ==
    IF parsed = <<>> THEN <<>> ELSE <<Head(parsed).mnemonic>> \o Mnemonics(Tail(parsed))

RECURSIVE HexOf(_)
HexOf(parsed) == IF parsed = <<>> THEN <<>> ELSE <<Head(parsed).hex>> \o HexOf(Tail(parsed))

\* The fields the dataclass FunctionMatch declares (tools/build.py).
FunctionMatchFields == {"name", "fuzzy_match_percent", "size"}

\* FunctionMatch(**kw): the object, or TypeError for a keyword the dataclass
\* does not declare.
FunctionMatch(kw) ==
    IF DOMAIN kw \subseteq FunctionMatchFields
    THEN [raised |-> FALSE, value |-> kw]
    ELSE [raised |-> TRUE]

\* compute_function_match lines 474-491: structural_pct and mismatch_type.
Classify(target_mnemonics, compiled_mnemonics) ==
    IF target_mnemonics = compiled_mnemonics
    THEN [structural_pct |-> Hundred, mismatch_type |-> "register_only"]
    ELSE LET structural_pct == RatioPercent(target_mnemonics, compiled_mnemonics) IN
         [structural_pct |-> structural_pct,
          mismatch_type |-> IF structural_pct = Hundred THEN "register_only"
                            ELSE IF Len(target_mnemonics) # Len(compiled_mnemonics)
                                 THEN "structural"
                                 ELSE "opcode"]

\* compute_function_match(target_asm, compiled_asm).
compute_function_match(target_asm, compiled_asm) ==
    LET target_parsed == _parse_asm_to_tuples(target_asm)
        compiled_parsed == _parse_asm_to_tuples(compiled_asm)
        target_bytes == HexOf(target_parsed)
        compiled_bytes == HexOf(compiled_parsed)
        size == Len(target_bytes) * 4
        class == Classify(Mnemonics(target_parsed), Mnemonics(compiled_parsed))
    IN IF target_bytes = <<>> /\ compiled_bytes = <<>>
       THEN FunctionMatch([name |-> "", fuzzy_match_percent |-> Hundred, size |-> 0,
                           structural_match_percent |-> Hundred, mismatch_type |-> ""])
       ELSE IF target_bytes = <<>> \/ compiled_bytes = <<>>
       THEN FunctionMatch([name |-> "", fuzzy_match_percent |-> 0, size |-> size,
                           structural_match_percent |-> 0, mismatch_type |-> "structural"])
       ELSE IF target_bytes = compiled_bytes
       THEN FunctionMatch([name |-> "", fuzzy_match_percent |-> Hundred, size |-> size,
                           structural_match_percent |-> Hundred, mismatch_type |-> ""])
       ELSE FunctionMatch([name |-> "",
                           fuzzy_match_percent |-> RatioPercent(Flat(target_parsed),
                                                                Flat(compiled_parsed)),
                           size |-> size,
                           structural_match_percent |-> class.structural_pct,
                           mismatch_type |-> class.mismatch_type])

\* A pure function of tools/disasm.py is applied to the arguments drawn.
ComputeFunctionMatchCall ==
    /\ calc.op = "none" /\ calc.for = "compute_function_match"
    /\ calc' = [calc EXCEPT !.op = "compute_function_match",
                            !.out = compute_function_match(calc.target, calc.compiled)]
    /\ UNCHANGED <<store, file, locks, pc, func, mode, file_lock, saved_source, result,
                   edited, info, asked, candidates, brun, job, batch, cost_lock, tmp, web>>

ExtractAllFunctionsCall ==
    /\ calc.op = "none" /\ calc.for = "extract_all_functions"
    /\ calc' = [calc EXCEPT !.op = "extract_all_functions",
                            !.out = extract_all_functions(calc.asm_text)]
    /\ UNCHANGED <<store, file, locks, pc, func, mode, file_lock, saved_source, result,
                   edited, info, asked, candidates, brun, job, batch, cost_lock, tmp, web>>

\* difflib.SequenceMatcher.get_matching_blocks: the longest block, the blocks
\* to its left, the blocks to its right, in order, closed by the block of
\* size 0 after both ends. Two blocks never touch in both sequences (the
\* longer block would hold both), so nothing is merged.
RECURSIVE MatchingBlocks(_, _, _, _, _, _)
MatchingBlocks(a, b, alo, ahi, blo, bhi) ==
    LET m == find_longest_match(a, b, alo, ahi, blo, bhi) IN
    IF m[3] = 0 THEN <<>>
    ELSE MatchingBlocks(a, b, alo, m[1], blo, m[2])
         \o <<m>>
         \o MatchingBlocks(a, b, m[1] + m[3], ahi, m[2] + m[3], bhi)

get_matching_blocks(a, b) ==
    MatchingBlocks(a, b, 1, Len(a) + 1, 1, Len(b) + 1) \o <<<<Len(a) + 1, Len(b) + 1, 0>>>>

\* difflib.SequenceMatcher.get_opcodes: (tag, i1, i2, j1, j2) for a[i1..i2-1]
\* and b[j1..j2-1], the gap before each block and then the block.
RECURSIVE OpcodesFrom(_, _, _)
OpcodesFrom(blocks, i, j) ==
    IF blocks = <<>> THEN <<>>
    ELSE LET ai == Head(blocks)[1]
             bj == Head(blocks)[2]
             size == Head(blocks)[3]
             tag == IF i < ai /\ j < bj THEN "replace"
                    ELSE IF i < ai THEN "delete"
                    ELSE IF j < bj THEN "insert"
                    ELSE ""
         IN (IF tag # "" THEN <<[tag |-> tag, i1 |-> i, i2 |-> ai, j1 |-> j, j2 |-> bj]>>
             ELSE <<>>)
            \o (IF size # 0
                THEN <<[tag |-> "equal", i1 |-> ai, i2 |-> ai + size,
                        j1 |-> bj, j2 |-> bj + size]>>
                ELSE <<>>)
            \o OpcodesFrom(Tail(blocks), ai + size, bj + size)

get_opcodes(a, b) == OpcodesFrom(get_matching_blocks(a, b), 1, 1)

\* The instruction text of a parsed line, and the "" of an absent side.
TextOf(line) == [mnemonic |-> line.mnemonic, operands |-> line.operands]

NoText == [mnemonic |-> "", operands |-> ""]

\* InstructionPair(index, target_hex, compiled_hex, target_insn,
\* compiled_insn, mismatch_type).
InstructionPair(index, target_hex, compiled_hex, target_insn, compiled_insn, mismatch_type) ==
    [index |-> index, target_hex |-> target_hex, compiled_hex |-> compiled_hex,
     target_insn |-> target_insn, compiled_insn |-> compiled_insn,
     mismatch_type |-> mismatch_type]

\* Variant: the whole instruction text is compared, not the mnemonic.
ReplaceTagByText(t, c) ==
    IF t.hex = c.hex THEN "phantom"
    ELSE IF TextOf(t) = TextOf(c) THEN "register"
    ELSE "opcode"

\* _align_and_classify lines 266-278: the tag of a pair of a replace span.
ReplaceTag(t, c) ==
    IF t.hex = c.hex THEN "phantom"
    ELSE IF t.mnemonic = c.mnemonic THEN "register"
    ELSE "opcode"

\* _align_and_classify lines 241-324: the pairs one opcode appends, their
\* index left at 0.
OpcodePairs(op, target_parsed, compiled_parsed) ==
    LET t_len == op.i2 - op.i1
        c_len == op.j2 - op.j1
        paired == IF t_len < c_len THEN t_len ELSE c_len
        Both(t, c, mtype) == InstructionPair(0, t.hex, c.hex, TextOf(t), TextOf(c), mtype)
        OnlyTarget(t) == InstructionPair(0, t.hex, <<>>, TextOf(t), NoText, "extra_target")
        OnlyCompiled(c) ==
            InstructionPair(0, <<>>, c.hex, NoText, TextOf(c), "extra_compiled")
    IN IF op.tag = "equal"
       THEN [k \in 1..paired |->
               LET t == target_parsed[op.i1 + k - 1]
                   c == compiled_parsed[op.j1 + k - 1]
               IN Both(t, c, IF TextOf(t) # TextOf(c) THEN "phantom" ELSE "match")]
       ELSE IF op.tag = "replace"
       THEN [k \in 1..paired |->
               LET t == target_parsed[op.i1 + k - 1]
                   c == compiled_parsed[op.j1 + k - 1]
               IN Both(t, c, ReplaceTag(t, c))]
            \o [k \in 1..(t_len - paired) |->
                  OnlyTarget(target_parsed[op.i1 + paired + k - 1])]
            \o [k \in 1..(c_len - paired) |->
                  OnlyCompiled(compiled_parsed[op.j1 + paired + k - 1])]
       ELSE IF op.tag = "delete"
       THEN [k \in 1..t_len |-> OnlyTarget(target_parsed[op.i1 + k - 1])]
       ELSE [k \in 1..c_len |-> OnlyCompiled(compiled_parsed[op.j1 + k - 1])]

RECURSIVE AllPairs(_, _, _)
AllPairs(opcodes, target_parsed, compiled_parsed) ==
    IF opcodes = <<>> THEN <<>>
    ELSE OpcodePairs(Head(opcodes), target_parsed, compiled_parsed)
         \o AllPairs(Tail(opcodes), target_parsed, compiled_parsed)

\* The pairs of the given tags: each counter is raised where a pair of its
\* tags is appended.
CountPairs(pairs, tags) ==
    Cardinality({i \in DOMAIN pairs : pairs[i].mismatch_type \in tags})

\* _align_and_classify(target_parsed, compiled_parsed).
_align_and_classify(target_parsed, compiled_parsed) ==
    LET unnumbered == AllPairs(get_opcodes(HexOf(target_parsed), HexOf(compiled_parsed)),
                               target_parsed, compiled_parsed)
        pairs == [i \in DOMAIN unnumbered |-> [unnumbered[i] EXCEPT !.index = i - 1]]
    IN [total |-> Max(Len(target_parsed), Len(compiled_parsed)),
        matching |-> CountPairs(pairs, {"match", "phantom"}),
        phantom |-> CountPairs(pairs, {"phantom"}),
        register_only |-> CountPairs(pairs, {"register"}),
        opcode_diffs |-> CountPairs(pairs, {"opcode"}),
        extra_target |-> CountPairs(pairs, {"extra_target"}),
        extra_compiled |-> CountPairs(pairs, {"extra_compiled"}),
        pairs |-> pairs]

\* Variant: the phantom pairs are counted as differences.
DiffCountWithPhantom(analysis) ==
    analysis.register_only + analysis.opcode_diffs
    + analysis.extra_target + analysis.extra_compiled + analysis.phantom

\* _format_diff_analysis lines 346-349.
DiffCount(analysis) ==
    analysis.register_only + analysis.opcode_diffs
    + analysis.extra_target + analysis.extra_compiled

\* Variant: a run of 4 is shown in full too.
ShownInFullUpTo4(run_len) == run_len <= 4

\* _format_diff_analysis line 382.
ShownInFull(run_len) == run_len <= 3

\* _format_diff_analysis lines 369-410: the lines of pairs[i..], a line held
\* as the record of what its f-string prints.
RECURSIVE FormatPairs(_, _)
FormatPairs(pairs, i) ==
    IF i > Len(pairs) THEN <<>>
    ELSE LET pair == pairs[i]
             Context(p) == [kind |-> "context", hex |-> p.target_hex, insn |-> p.target_insn]
             Minus(p, tag) ==
                 [kind |-> "-", hex |-> p.target_hex, insn |-> p.target_insn, tag |-> tag]
             Plus(p, tag) ==
                 [kind |-> "+", hex |-> p.compiled_hex, insn |-> p.compiled_insn, tag |-> tag]
             stops == {j \in i..Len(pairs) : pairs[j].mismatch_type \notin {"match", "phantom"}}
             run_end == IF stops = {} THEN Len(pairs) + 1
                        ELSE CHOOSE j \in stops : \A k \in stops : j <= k
             run_len == run_end - i
         IN IF pair.mismatch_type \in {"match", "phantom"}
            THEN (IF ShownInFull(run_len)
                  THEN [j \in 1..run_len |-> Context(pairs[i + j - 1])]
                  ELSE <<Context(pairs[i]),
                         [kind |-> "collapsed", count |-> run_len - 2],
                         Context(pairs[run_end - 1])>>)
                 \o FormatPairs(pairs, run_end)
            ELSE IF pair.mismatch_type \in {"register", "opcode"}
            THEN <<Minus(pair, pair.mismatch_type), Plus(pair, "")>>
                 \o FormatPairs(pairs, i + 1)
            ELSE IF pair.mismatch_type = "extra_target"
            THEN <<Minus(pair, "missing")>> \o FormatPairs(pairs, i + 1)
            ELSE IF pair.mismatch_type = "extra_compiled"
            THEN <<Plus(pair, "extra")>> \o FormatPairs(pairs, i + 1)
            ELSE FormatPairs(pairs, i + 1)

\* _format_diff_analysis(analysis): the one line "All instructions match.",
\* or the summary, the phantom note, an empty line and the lines of the pairs.
_format_diff_analysis(analysis) ==
    IF DiffCount(analysis) = 0
    THEN <<[kind |-> "text", text |-> "All instructions match."]>>
    ELSE <<[kind |-> "summary", total |-> analysis.total, match |-> analysis.matching,
            differ |-> DiffCount(analysis)]>>
         \o (IF analysis.phantom > 0
             THEN <<[kind |-> "phantom diffs filtered", count |-> analysis.phantom]>>
             ELSE <<>>)
         \o <<[kind |-> "text", text |-> ""]>>
         \o FormatPairs(analysis.pairs, 1)

AlignAndClassifyCall ==
    /\ calc.op = "none" /\ calc.for = "_align_and_classify"
    /\ calc' = [calc EXCEPT !.op = "_align_and_classify",
                            !.out = _align_and_classify(calc.target, calc.compiled)]
    /\ UNCHANGED <<store, file, locks, pc, func, mode, file_lock, saved_source, result,
                   edited, info, asked, candidates, brun, job, batch, cost_lock, tmp, web>>

\* get_function_diff lines 570-574: parse, analyse, render.
GetFunctionDiffCall ==
    /\ calc.op = "none" /\ calc.for = "get_function_diff"
    /\ calc' = [calc EXCEPT
                  !.op = "get_function_diff",
                  !.out = _format_diff_analysis(
                              _align_and_classify(_parse_asm_to_tuples(calc.target),
                                                  _parse_asm_to_tuples(calc.compiled)))]
    /\ UNCHANGED <<store, file, locks, pc, func, mode, file_lock, saved_source, result,
                   edited, info, asked, candidates, brun, job, batch, cost_lock, tmp, web>>

\* ------------------------------------------------------------------ agent/loop.py

\* run_agent's function_name, and another function of the same file.
TargetName == "fa"

OtherName == "fb"

\* A tool's output, as the set of its lines: "All functions match!", a
\* `name: MATCH` line, a `name: NN%` line, or other text.
AllMatchLine == [kind |-> "all", name |-> "", pct |-> 0, text |-> "All functions match!"]

MatchLine(name) == [kind |-> "match", name |-> name, pct |-> 0, text |-> ""]

PctLine(name, pct) == [kind |-> "pct", name |-> name, pct |-> pct, text |-> ""]

TextLine(text) == [kind |-> "text", name |-> "", pct |-> 0, text |-> text]

\* _handle_mark_complete (registry.py:317-340): its four outputs.
MarkCompleteOutputs ==
    {{TextLine("compilation failed, cannot verify match")},
     {TextLine("not found in compile output")},
     {TextLine("is NOT matched")},
     {TextLine("is a confirmed MATCH")}}

\* _handle_compile_and_check (registry.py:239-270): what it can return.
CompileAndCheckOutputs ==
    {{TextLine("Compilation failed")},
     {MatchLine(TargetName), MatchLine(OtherName), AllMatchLine},
     {MatchLine(TargetName), PctLine(OtherName, 50)},
     {MatchLine(OtherName), PctLine(TargetName, 50)}}

\* Function calls a response can carry, each with the output the registry's
\* dispatch returns for it: compile_and_check, mark_complete for the target
\* or for another function, and a tool whose text shows a MATCH line.
ToolCalls ==
    [name : {"compile_and_check"}, function : {TargetName}, output : CompileAndCheckOutputs]
    \cup [name : {"mark_complete"}, function : {TargetName, OtherName},
          output : MarkCompleteOutputs]
    \cup [name : {"get_diff"}, function : {TargetName}, output : {{MatchLine(TargetName)}}]

\* _update_best_match lines 57-75.
_update_best_match(tool_name, tool_result, current_best, function_name) ==
    IF tool_name # "compile_and_check" THEN current_best
    ELSE IF \E l \in tool_result : l.kind = "all" THEN 100
    ELSE LET best == IF \E l \in tool_result : l.kind = "match" /\ l.name = function_name
                     THEN (IF current_best > 100 THEN current_best ELSE 100)
                     ELSE current_best
             pcts == {l.pct : l \in {x \in tool_result : x.kind = "pct" /\ x.name = function_name}}
         IN IF \E p \in pcts : p > best
            THEN CHOOSE p \in pcts : \A q \in pcts : q <= p
            ELSE best

\* _target_function_matched lines 82-92.
_target_function_matched(tool_name, tool_result, function_name) ==
    /\ tool_name = "compile_and_check"
    /\ \/ \E l \in tool_result : l.kind = "all"
       \/ \E l \in tool_result : l.kind = "match" /\ l.name = function_name

\* run_agent line 211: `if fc.name == "mark_complete"`.
MarkCompleteAccepted(fc) == fc.name = "mark_complete"

\* The call's output is a verification that confirmed the target function's
\* match: compile_and_check showing it, or mark_complete called for it and
\* answering "confirmed MATCH".
Confirms(fc) ==
    \/ _target_function_matched(fc.name, fc.output, TargetName)
    \/ /\ fc.name = "mark_complete" /\ fc.function = TargetName
       /\ TextLine("is a confirmed MATCH") \in fc.output

\* run_agent lines 122-134: the AgentResult with its defaults and the
\* configuration read; `calls` is the number of function calls of the
\* current response not yet dispatched (what each of them is shows when it
\* is dispatched), `fc` is the call dispatched last, `confirmed` records
\* whether a dispatched call was a confirming verification.
NoCall == [name |-> "", function |-> "", output |-> {}]

RunAgentStart(max_iterations, max_tokens) ==
    [for |-> "run_agent", at |-> "for",
     max_iterations |-> max_iterations, max_tokens_per_attempt |-> max_tokens,
     iterations |-> 0, matched |-> FALSE, best_match_percent |-> 0,
     total_tokens |-> 0, error |-> FALSE, termination_reason |-> "",
     calls |-> 0, fc |-> NoCall, confirmed |-> FALSE]

AgentFrame ==
    UNCHANGED <<store, file, locks, pc, func, mode, file_lock, saved_source, result,
                edited, info, asked, candidates, brun, job, batch, cost_lock, tmp, web>>

\* Line 134: the for loop starts its next iteration.
Iterate ==
    /\ calc.for = "run_agent" /\ calc.at = "for"
    /\ calc.iterations < calc.max_iterations
    /\ calc' = [calc EXCEPT !.iterations = @ + 1, !.at = "create", !.op = "run_agent"]
    /\ AgentFrame

\* Lines 231-232: the range is exhausted, the loop's else clause runs.
Exhausted ==
    /\ calc.for = "run_agent" /\ calc.at = "for"
    /\ calc.iterations >= calc.max_iterations
    /\ calc' = [calc EXCEPT !.termination_reason = "max_iterations", !.at = "after",
                            !.op = "run_agent"]
    /\ AgentFrame

\* Lines 149-155: client.responses.create raises.
ApiError ==
    /\ calc.for = "run_agent" /\ calc.at = "create"
    /\ calc' = [calc EXCEPT !.error = TRUE, !.termination_reason = "api_error",
                            !.at = "after"]
    /\ AgentFrame

\* Lines 157-178: the response arrives; its usage is added (nothing when the
\* response has none); a response without function calls ends the loop.
Respond(usage, function_calls) ==
    /\ calc.for = "run_agent" /\ calc.at = "create"
    /\ calc' = [calc EXCEPT
                  !.total_tokens = @ + usage,
                  !.calls = function_calls,
                  !.termination_reason = IF function_calls = 0 THEN "model_stopped" ELSE @,
                  !.at = IF function_calls = 0 THEN "after" ELSE "dispatch"]
    /\ AgentFrame

\* Lines 182-214: one function call is dispatched and its output examined.
DispatchCall(fc) ==
    /\ calc.for = "run_agent" /\ calc.at = "dispatch" /\ calc.calls > 0
    /\ LET found == \/ _target_function_matched(fc.name, fc.output, TargetName)
                    \/ MarkCompleteAccepted(fc)
       IN calc' = [calc EXCEPT
                     !.calls = @ - 1,
                     !.fc = fc,
                     !.best_match_percent =
                         _update_best_match(fc.name, fc.output, @, TargetName),
                     !.matched = @ \/ found,
                     !.termination_reason = IF found THEN "matched" ELSE @,
                     !.confirmed = @ \/ Confirms(fc)]
    /\ AgentFrame

\* Variant: the budget counts as used up only once it is exceeded.
TokenBudgetExceeded(total_tokens, max_tokens) == total_tokens > max_tokens

\* Line 223: `result.total_tokens >= config.agent.max_tokens_per_attempt`.
TokenBudgetUsed(total_tokens, max_tokens) == total_tokens >= max_tokens

\* Lines 216-230: after the last call, leave on a match, else leave when the
\* token budget is used up, else go round the loop.
EndIteration ==
    /\ calc.for = "run_agent" /\ calc.at = "dispatch" /\ calc.calls = 0
    /\ calc' = IF calc.matched THEN [calc EXCEPT !.at = "after"]
               ELSE IF TokenBudgetUsed(calc.total_tokens, calc.max_tokens_per_attempt)
               THEN [calc EXCEPT !.termination_reason = "token_budget", !.at = "after"]
               ELSE [calc EXCEPT !.at = "for"]
    /\ AgentFrame

\* Lines 234-260: final_code, elapsed_seconds, `return result`.
ReturnResult ==
    /\ calc.for = "run_agent" /\ calc.at = "after"
    /\ calc' = [calc EXCEPT !.at = "returned", !.out = 1]
    /\ AgentFrame

\* ------------------------------------------------------------------ web/routers/batch.py

\* POST /api/batch/start requests; FastAPI runs the handler (a plain `def`)
\* on a thread of its pool, so handlers of different requests overlap.
Requests == {"r1", "r2", "r3"}

\* The BatchStatus singleton (running), each request's position in
\* start_batch and the batch thread it started.
WebStart ==
    [for |-> "start_batch", running |-> FALSE,
     at |-> [r \in Requests |-> "none"],
     thread |-> [r \in Requests |-> "none"],
     how |-> [r \in Requests |-> ""]]

\* A request arrives and its handler is called.
RequestArrives(r) ==
    /\ calc.for = "start_batch" /\ calc.at[r] = "none"
    /\ calc' = [calc EXCEPT !.at[r] = "check", !.op = "start_batch"]
    /\ AgentFrame

\* Lines 78-80: `if status.running: raise HTTPException(409)`, read without
\* the lock.
CheckRunning(r) ==
    /\ calc.for = "start_batch" /\ calc.at[r] = "check"
    /\ calc' = [calc EXCEPT !.at[r] = IF calc.running THEN "409" ELSE "reset"]
    /\ AgentFrame

\* Lines 82-84 and 54-60: status.reset(params) sets running under _lock.
StatusReset(r) ==
    /\ calc.for = "start_batch" /\ calc.at[r] = "reset"
    /\ calc' = [calc EXCEPT !.running = TRUE, !.at[r] = "thread"]
    /\ AgentFrame

\* Lines 120-124: the batch-runner thread is started, the handler returns.
ThreadStart(r) ==
    /\ calc.for = "start_batch" /\ calc.at[r] = "thread"
    /\ calc' = [calc EXCEPT !.thread[r] = "running", !.at[r] = "started"]
    /\ AgentFrame

\* How the thread's run_batch call can end: the keyword it does not declare
\* raises TypeError before run_batch runs.
ThreadOutcomes ==
    IF StartBatchKeywords \subseteq RunBatchKeywords THEN {"returned", "raised"}
    ELSE {"raised"}

\* Lines 94-118 and 62-64: _run ends; `except Exception` logs, `finally`
\* calls status.finish().
ThreadEnd(r, how) ==
    /\ calc.for = "start_batch" /\ calc.thread[r] = "running"
    /\ how \in ThreadOutcomes
    /\ calc' = [calc EXCEPT !.thread[r] = "finished", !.how[r] = how, !.running = FALSE]
    /\ AgentFrame

\* ------------------------------------------------------------------ specifications

Init ==
    /\ fn = [n \in Names |-> NoRow]
    /\ attempt_rows = [n \in Names |-> 0]
    /\ file \in {f \in [Files -> {{}, Absent}] : \A s \in Files : f[s] = Absent => s \in MaybeMissing}
    /\ file_locks = [s \in Files |-> 0]
    /\ lock_owner = <<>>
    /\ guard = "free"
    /\ pc = [w \in Workers |-> "idle"]
    /\ func = [w \in Workers |-> "f1"]
    /\ mode = [w \in Workers |-> "pool"]
    /\ file_lock = [w \in Workers |-> 0]
    /\ saved_source = [w \in Workers |-> None]
    /\ result = [w \in Workers |-> NoResult]
    /\ edited = [w \in Workers |-> FALSE]
    /\ info = DefaultInfo
    /\ asked = NoQuery
    /\ candidates = <<>>
    /\ brun = NoRun
    /\ job = [n \in Names |-> NoJob]
    /\ batch = NoBatch
    /\ cost_lock = "free"
    /\ tmp = [w \in Workers |-> NoCounters]
    /\ web = NoWeb
    /\ calc = NoCalc

\* A report gives a percentage to the names it holds and -1 to the others.
ReportsOver(names, pcts) ==
    {r \in [Names -> pcts \cup {-1}] :
        /\ \E n \in Names : r[n] # -1
        /\ \A n \in Names \ names : r[n] = -1}

\* The steps of run_function after the status was set to in_progress.
RunStep(w) ==
    \/ GuardAcquire(w)
    \/ LockCreate(w)
    \/ LockReturn(w)
    \/ AcquireLock(w)
    \/ Snapshot(w)
    \/ SnapshotFail(w)
    \/ \E bytes \in SUBSET Names : AgentEdit(w, bytes)
    \/ \E res \in AgentResults : AgentReturn(w, res)
    \/ AgentRaise(w)
    \/ Revert(w)
    \/ Unlock(w)
    \/ Record(w)

\* Spec: the store and the runner on the main thread (cli `run NAME`, a
\* sequential batch), interruptible, with every report over the functions of a.c.
Next ==
    \/ \E report \in ReportsOver({"f1", "f2"}, Pcts) : SyncFromReport(report)
    \/ \E w \in Workers, n \in Names : StartMain(w, n)
    \/ \E w \in Workers : RunStep(w)
    \/ \E w \in Workers : InterruptBeforeTry(w)
    \/ \E w \in Workers : InterruptInTry(w)
    \/ \E w \in Workers : InterruptReset(w)
    \/ \E w \in Workers : InterruptRestore(w)

Spec == Init /\ [][Next]_vars

\* SpecPool: pool threads of a parallel batch on the functions of both files.
NextPool ==
    \/ SyncFromReport([n \in Names |-> 50])
    \/ \E w \in Workers, n \in Names : StartPool(w, n)
    \/ \E w \in Workers : RunStep(w)

SpecPool == Init /\ [][NextPool]_vars

\* SpecRetry: batch after batch on the same table, sequential (main thread,
\* interruptible) or parallel (pool threads): every run starts from a row the
\* candidate query selects. The table holds the two Functions of a.c.
NextRetry ==
    \/ SyncFromReport([n \in Names |-> IF source_file[n] = "a.c" THEN 50 ELSE -1])
    \/ \E w \in Workers, n \in Names : StartCandidate(w, n)
    \/ \E w \in Workers, n \in Names : StartPool(w, n)
    \/ \E w \in Workers : RunStep(w)
    \/ \E w \in Workers : InterruptBeforeTry(w)
    \/ \E w \in Workers : InterruptInTry(w)
    \/ \E w \in Workers : InterruptReset(w)
    \/ \E w \in Workers : InterruptRestore(w)

SpecRetry == Init /\ [][NextRetry]_vars

\* SpecStore: the store's two writers called directly, in any order.
NextStore ==
    \/ \E report \in ReportsOver(Names, Pcts) : SyncFromReport(report)
    \/ \E n \in Names, res \in AgentResults \cup {CrashResult} : RecordAttemptCall(n, res)

SpecStore == Init /\ [][NextStore]_vars

\* SpecQuery: the candidate queries applied to any table of three Functions.
QueryRows ==
    { [exists |-> TRUE, status |-> "pending", attempts |-> 0, cur |-> 50, init |-> 50, matched_at |-> FALSE],
      [exists |-> TRUE, status |-> "pending", attempts |-> 0, cur |-> 0, init |-> 0, matched_at |-> FALSE],
      [exists |-> TRUE, status |-> "pending", attempts |-> 0, cur |-> 100, init |-> 100, matched_at |-> FALSE],
      [exists |-> TRUE, status |-> "pending", attempts |-> MaxAttempts, cur |-> 50, init |-> 50, matched_at |-> FALSE],
      [exists |-> TRUE, status |-> "matched", attempts |-> 1, cur |-> 100, init |-> 50, matched_at |-> TRUE] }

Queries ==
    [limit : {1, 3}, max_size : {Unset, 1}, max_attempts : {MaxAttempts},
     strategy : Strategies, library : {AnyLibrary, "lb"},
     min_match : {Unset, 50}, max_match : {Unset, 0}]

InitQuery ==
    /\ fn \in [Names -> QueryRows]
    /\ info \in {i \in [Names -> [size : Sizes, library : {"lb", "ft", "thp"}]] :
                    \A n \in Names : i[n].library \in LibrariesOf(n)}
    /\ asked = NoQuery
    /\ candidates = <<>>
    /\ brun = NoRun
    /\ job = [n \in Names |-> NoJob]
    /\ batch = NoBatch
    /\ cost_lock = "free"
    /\ tmp = [w \in Workers |-> NoCounters]
    /\ web = NoWeb
    /\ calc = NoCalc
    /\ attempt_rows = [n \in Names |-> 0]
    /\ file = [s \in Files |-> {}]
    /\ file_locks = [s \in Files |-> 0]
    /\ lock_owner = <<>>
    /\ guard = "free"
    /\ pc = [w \in Workers |-> "idle"]
    /\ func = [w \in Workers |-> "f1"]
    /\ mode = [w \in Workers |-> "pool"]
    /\ file_lock = [w \in Workers |-> 0]
    /\ saved_source = [w \in Workers |-> None]
    /\ result = [w \in Workers |-> NoResult]
    /\ edited = [w \in Workers |-> FALSE]

\* get_next_candidate takes max_size, max_attempts and strategy only.
NextQueries ==
    {q \in Queries : /\ q.limit = 1 /\ q.library = AnyLibrary
                      /\ q.min_match = Unset /\ q.max_match = Unset}

NextQuery ==
    \/ \E q \in Queries : GetCandidateBatchCall(q)
    \/ \E q \in NextQueries : GetNextCandidateCall(q)

SpecQuery == InitQuery /\ [][NextQuery]_vars

\* SpecBatch: one batch, started by a call of run_batch or by the web router,
\* on the table `init` builds from a report of three Functions at 50%.
RunOneStep(w) ==
    \/ BudgetCheck(w)
    \/ Announce(w)
    \/ AnnounceFail(w)
    \/ \E res \in AgentResults \cup {CrashResult}, bytes \in SUBSET Names \cup {Absent} :
          RunFunction(w, res, bytes)
    \/ TotalsEnter(w)
    \/ TotalsExit(w)

NextBatch ==
    \/ SyncFromReport([n \in Names |-> 50])
    \/ \E a \in BatchArgs : StartBatch(a)
    \/ \E a \in BatchArgs : StartBatchWeb(a)
    \/ CancelBatch
    \/ BatchThread
    \/ BatchFetch
    \/ \E yes \in BOOLEAN : BatchConfirm(yes)
    \/ \E w \in Workers : SeqNext(w)
    \/ \E w \in Workers : PoolTake(w)
    \/ \E w \in Workers : RunOneStep(w)
    \/ ParEnd

SpecBatch == Init /\ [][NextBatch]_vars

\* SpecBatchLive: the same batch with every thread scheduled again and again:
\* a step of a job, the next turn of the sequential loop, the next task of
\* the executor and the end of the executor's `with` are taken when they
\* stay possible. Starting a batch and answering the prompt are left free.
SpecBatchLive ==
    /\ SpecBatch
    /\ \A w \in Workers :
          WF_vars(RunOneStep(w)) /\ WF_vars(SeqNext(w)) /\ WF_vars(PoolTake(w))
    /\ WF_vars(ParEnd)

\* Every variable but calc, as it is when nothing runs.
AtRest ==
    /\ fn = [n \in Names |-> NoRow]
    /\ attempt_rows = [n \in Names |-> 0]
    /\ file = [s \in Files |-> {}]
    /\ file_locks = [s \in Files |-> 0]
    /\ lock_owner = <<>>
    /\ guard = "free"
    /\ pc = [w \in Workers |-> "idle"]
    /\ func = [w \in Workers |-> "f1"]
    /\ mode = [w \in Workers |-> "pool"]
    /\ file_lock = [w \in Workers |-> 0]
    /\ saved_source = [w \in Workers |-> None]
    /\ result = [w \in Workers |-> NoResult]
    /\ edited = [w \in Workers |-> FALSE]
    /\ info = DefaultInfo
    /\ asked = NoQuery
    /\ candidates = <<>>
    /\ brun = NoRun
    /\ job = [n \in Names |-> NoJob]
    /\ batch = NoBatch
    /\ cost_lock = "free"
    /\ tmp = [w \in Workers |-> NoCounters]
    /\ web = NoWeb

\* Sequences over S of length at most k.
SeqUpTo(S, k) == UNION {[1..m -> S] : m \in 0..k}

\* SpecCost: the functions of cost.py applied to drawn arguments. An Attempt
\* of the history carries the size of its Function and its total_tokens.
TargetSizes == {1, 3, 4}

HistoryAttempts == [size : {0, 1, 2, 4, 6}, total_tokens : {0, 30, 60}]

Histories == SeqUpTo(HistoryAttempts, MaxHistory)

CostResults ==
    [input_tokens : {0, 1000}, cached_tokens : {0, 1000}, output_tokens : {0, 1000},
     model : {"", "unknown-model"}]

CostArguments ==
    [for : {"calculate_cost"}, result : CostResults, pricing : Pricings]
    \cup [for : {"estimate_function_cost"}, size : TargetSizes, history : Histories,
          pricing : Pricings]
    \cup [for : {"estimate_batch_cost"}, sizes : SeqUpTo(TargetSizes, 2),
          history : Histories, pricing : Pricings]

\* The arguments a, no function applied yet.
Pending(a) == [k \in DOMAIN a \cup {"op", "out"} |->
                 IF k = "op" THEN "none" ELSE IF k = "out" THEN 0 ELSE a[k]]

InitCost ==
    /\ AtRest
    /\ calc \in {Pending(a) : a \in CostArguments}

NextCost ==
    \/ CalculateCostCall
    \/ EstimateFunctionCostCall
    \/ EstimateBatchCostCall

SpecCost == InitCost /\ [][NextCost]_vars

\* SpecDisasm: the functions of tools/disasm.py applied to drawn assembly.
\* Two instructions of the same bytes and different symbols, two of the same
\* mnemonic and different bytes, one sharing no byte with the others.
Instructions ==
    { Insn(<<"48", "00", "00", "01">>, "bl", "foo"),
      Insn(<<"48", "00", "00", "01">>, "bl", "bar"),
      Insn(<<"38", "60", "00", "00">>, "li", "r3, 0"),
      Insn(<<"38", "80", "00", "00">>, "li", "r4, 0"),
      Insn(<<"7C", "08", "02", "A6">>, "mflr", "r0") }

MaxInstructions == 2

MaxLines == 4

\* The instruction lines of the texts compute_function_match is given.
AsmTexts == SeqUpTo(Instructions, MaxInstructions)

\* The line extract_all_functions leaves in front of both texts, or nothing.
Prefixes == {<<>>, <<Fn("fa")>>}

ExtractLines ==
    {Fn("fa"), Fn("fb"), EndFn("fa"), Insn(<<"38", "60", "00", "00">>, "li", "r3, 0"),
     Insn(<<"7C", "08", "02", "A6">>, "mflr", "r0")}

DisasmArguments ==
    {[for |-> "compute_function_match", target |-> pre \o t, compiled |-> pre \o c] :
        pre \in Prefixes, t \in AsmTexts, c \in AsmTexts}
    \cup [for : {"extract_all_functions"}, asm_text : SeqUpTo(ExtractLines, MaxLines)]

InitDisasm ==
    /\ AtRest
    /\ calc \in {Pending(a) : a \in DisasmArguments}

NextDisasm ==
    \/ ComputeFunctionMatchCall
    \/ ExtractAllFunctionsCall

SpecDisasm == InitDisasm /\ [][NextDisasm]_vars

\* SpecDiff: _align_and_classify applied to drawn instruction lists, and
\* get_function_diff's analysis and rendering applied to a target function
\* and the compiled function an edit of each of its instructions gives.
MaxEdits == 5

Edits == {"keep", "symbol", "register", "opcode", "delete", "insert"}

LowByte == <<"00", "04", "08", "0C", "10", "14", "18", "1C">>

\* The k-th target instruction, and the compiled instruction the edit makes
\* of it: other symbol and same bytes, other register, other mnemonic.
Original(k) == Insn(<<"3C", "60", "00", LowByte[k]>>, "lis", "r3, sym@ha")

Edited(k, edit) ==
    IF edit = "keep" THEN Original(k)
    ELSE IF edit = "symbol" THEN Insn(<<"3C", "60", "00", LowByte[k]>>, "lis", "r3, lbl@ha")
    ELSE IF edit = "register" THEN Insn(<<"3C", "80", "00", LowByte[k]>>, "lis", "r4, sym@ha")
    ELSE IF edit = "opcode" THEN Insn(<<"38", "60", "00", LowByte[k]>>, "li", "r3, 0")
    ELSE Insn(<<"60", "00", "00", "00">>, "nop", "")

TargetOf(script) ==
    LET kept == SelectSeq([k \in DOMAIN script |-> [k |-> k, edit |-> script[k]]],
                          LAMBDA e : e.edit # "insert")
    IN <<Fn("fa")>> \o [i \in DOMAIN kept |-> Original(kept[i].k)]

CompiledOf(script) ==
    LET kept == SelectSeq([k \in DOMAIN script |-> [k |-> k, edit |-> script[k]]],
                          LAMBDA e : e.edit # "delete")
    IN <<Fn("fa")>> \o [i \in DOMAIN kept |-> Edited(kept[i].k, kept[i].edit)]

DiffArguments ==
    [for : {"_align_and_classify"}, target : SeqUpTo(Instructions, MaxInstructions),
     compiled : SeqUpTo(Instructions, MaxInstructions)]
    \cup {[for |-> "get_function_diff", target |-> TargetOf(script),
           compiled |-> CompiledOf(script)] : script \in SeqUpTo(Edits, MaxEdits)}

InitDiff ==
    /\ AtRest
    /\ calc \in {Pending(a) : a \in DiffArguments}

NextDiff ==
    \/ AlignAndClassifyCall
    \/ GetFunctionDiffCall

SpecDiff == InitDiff /\ [][NextDiff]_vars

\* SpecAgent: run_agent with any configuration, any usage and any function
\* calls in each response.
MaxIterations == 2

MaxCalls == 2

\* response.usage.total_tokens of one response (0: the response has no usage).
Usages == {0, 1, 2}

\* config.agent.max_tokens_per_attempt.
Budgets == {1, 3}

InitAgent ==
    /\ AtRest
    /\ calc \in {Pending(RunAgentStart(i, t)) : i \in 0..MaxIterations, t \in Budgets}

NextAgent ==
    \/ Iterate
    \/ Exhausted
    \/ ApiError
    \/ \E usage \in Usages, function_calls \in 0..MaxCalls :
          Respond(usage, function_calls)
    \/ \E fc \in ToolCalls : DispatchCall(fc)
    \/ EndIteration
    \/ ReturnResult

SpecAgent == InitAgent /\ [][NextAgent]_vars

\* SpecAgentLive: every API call and every tool call comes back (with a
\* result or an exception), so the loop always takes its next step.
SpecAgentLive == SpecAgent /\ WF_vars(NextAgent)

\* SpecWeb: three start requests, arriving at any time.
InitWeb ==
    /\ AtRest
    /\ calc = Pending(WebStart)

NextWeb ==
    \/ \E r \in Requests : RequestArrives(r)
    \/ \E r \in Requests : CheckRunning(r)
    \/ \E r \in Requests : StatusReset(r)
    \/ \E r \in Requests : ThreadStart(r)
    \/ \E r \in Requests, how \in {"returned", "raised"} : ThreadEnd(r, how)

SpecWeb == InitWeb /\ [][NextWeb]_vars

\* ------------------------------------------------------------------ properties

\* Positions inside the `with file_lock:` block: snapshot, agent, restore.
FilePhase == {"snapshot", "agent", "revert", "unlock"}

SameFile(v, w) == source_file[func[v]] = source_file[func[w]]

\* The step on which a run leaves run_function from line 104-127 (by
\* returning, or by an exception of the recording code).
RecordLeaves(w) == pc[w] = "record" /\ pc'[w] = "idle"

\* The step on which a run leaves run_function without having been interrupted.
LeavesUninterrupted(w) == pc[w] \in InTry /\ pc'[w] = "idle"

\* The step on which an interruption leaves run_function.
InterruptLeaves(w) ==
    /\ mode[w] = "main"
    /\ pc[w] \in BeforeTry \cup {"int_restore"}
    /\ pc'[w] = "idle"

\* C1: two running jobs with the same source_file are never both inside the
\* file-mutating phase (snapshot, agent, restore), and _get_file_lock has
\* handed both of them the same lock, whatever the interleaving of the lookups.
C1_SameFileJobsExclusive ==
    \A v, w \in Workers :
        (v # w /\ ~Idle(v) /\ ~Idle(w) /\ SameFile(v, w)) =>
            /\ ~(pc[v] \in FilePhase /\ pc[w] \in FilePhase)
            /\ (file_lock[v] # 0 /\ file_lock[w] # 0) => file_lock[v] = file_lock[w]

\* One job edits a.c inside its file phase while the other job on a.c waits
\* for the same lock.
C1_Witness ==
    \E v, w \in Workers :
        /\ v # w /\ SameFile(v, w)
        /\ pc[v] = "agent" /\ edited[v]
        /\ pc[w] = "acquire" /\ file_lock[w] = file_lock[v]

\* C2: when a run leaves run_function after its agent produced a result, the
\* persisted status is matched (matched_at set) for a success, else failed if
\* attempts, counted after the run, is >= max_attempts, else pending.
C2_StatusAfterRun ==
    [][\A w \in Workers :
        RecordLeaves(w) =>
            LET row == fn'[func[w]] IN
            IF result[w].matched
            THEN row.status = "matched" /\ row.matched_at
            ELSE row.status = (IF row.attempts >= MaxAttempts THEN "failed" ELSE "pending")]_vars

\* C3: a run that ends unmatched with an agent error or an agent crash leaves
\* the Function pending with attempts incremented by exactly one.
C3_ErrorRunStaysPending ==
    [][\A w \in Workers :
        (RecordLeaves(w) /\ ~result[w].matched /\ result[w].error) =>
            /\ fn'[func[w]].status = "pending"
            /\ fn'[func[w]].attempts = fn[func[w]].attempts + 1]_vars

\* C4: an exception of the agent becomes the agent_crash result carrying the
\* error, no exception leaves run_function for that run, and the run has
\* persisted an Attempt when it leaves.
C4_CrashIsRecorded ==
    [][\A w \in Workers :
        /\ (pc[w] = "agent" /\ pc'[w] # "agent" /\ mode'[w] = mode[w]) =>
              /\ pc'[w] = "revert" /\ result'[w].set
              /\ result'[w].reason = "agent_crash" => result'[w].error
        /\ (RecordLeaves(w) /\ result[w].reason = "agent_crash") =>
              attempt_rows'[func[w]] = attempt_rows[func[w]] + 1]_vars

\* C5: every run that is not interrupted leaves run_function with an Attempt
\* persisted and the Function out of in_progress, whichever step failed.
C5_FailuresNeverEscape ==
    [][\A w \in Workers :
        LeavesUninterrupted(w) =>
            /\ fn'[func[w]].status # "in_progress"
            /\ attempt_rows'[func[w]] = attempt_rows[func[w]] + 1]_vars

\* C6: when an interruption leaves run_function, at whatever point after the
\* in_progress commit it arrived, the persisted status is pending and, the
\* result not being a match, the file holds the snapshot that was taken.
C6_InterruptResetsStatus ==
    [][\A w \in Workers :
        InterruptLeaves(w) =>
            /\ fn'[func[w]].status = "pending"
            /\ (~result[w].matched /\ saved_source[w] # None) =>
                  file'[source_file[func[w]]] = saved_source[w]]_vars

C8_MatchPctIsMax ==
    [][/\ \A n \in Names : fn[n].exists => fn'[n].cur >= fn[n].cur
       /\ \A report \in ReportsOver(Names, Pcts) :
             SyncFromReport(report) =>
                \A n \in Names :
                    (report[n] # -1 /\ fn[n].exists) => fn'[n].cur = Max(fn[n].cur, report[n])
       /\ \A n \in Names, res \in AgentResults \cup {CrashResult} :
             RecordAttemptCall(n, res) => fn'[n].cur = Max(fn[n].cur, res.best)]_vars

\* A Function with a recorded attempt whose current_match_pct stands above the
\* percentage of the latest report.
C8_Witness ==
    \E n \in Names :
        fn[n].exists /\ fn[n].attempts >= 1 /\ fn[n].cur = 100 /\ fn[n].init = 50

\* C9: attempts increases by exactly one on the step that ends a run whose
\* agent produced a result, and changes on no other step.
C9_AttemptsCountRuns ==
    [][\A n \in Names :
        IF \E w \in Workers : RecordLeaves(w) /\ func[w] = n
        THEN fn'[n].attempts = fn[n].attempts + 1
        ELSE fn[n].exists => fn'[n].attempts = fn[n].attempts]_vars

C11_CurrentAtLeastInitial ==
    \A n \in Names : fn[n].exists => fn[n].cur >= fn[n].init

\* A later report has raised initial_match_pct of an existing Function above
\* the percentage it was inserted with, and one has been lowered below its
\* current_match_pct.
C11_Witness ==
    /\ \E n \in Names : fn[n].exists /\ fn[n].attempts = 0 /\ fn[n].init = 50 /\ fn[n].cur = 100
    /\ \E n \in Names : fn[n].exists /\ fn[n].status = "matched" /\ fn[n].init = 100

\* C12: a Function that is matched, failed or skipped is returned by no
\* candidate selection and keeps its status on every step of the runner
\* (a run by name included) and of the store.
C12_TerminalAbsorbing ==
    [][\A n \in Names :
        (fn[n].exists /\ fn[n].status \in {"matched", "failed", "skipped"}) =>
            /\ ~Eligible(fn[n])
            /\ fn'[n].status = fn[n].status]_vars

\* The conditions the candidate queries are documented to apply.
Qualifies(n, q) ==
    /\ fn[n].exists /\ fn[n].status = "pending"
    /\ fn[n].attempts < q.max_attempts
    /\ fn[n].cur < 100
    /\ info[n].library \notin {"thp", "Gekko runtime", "<unknown>"}
    /\ q.max_size = Unset \/ info[n].size <= q.max_size

QualifiesBatch(n, q) ==
    /\ Qualifies(n, q)
    /\ q.library = AnyLibrary \/ info[n].library = q.library
    /\ q.min_match = Unset \/ fn[n].cur >= q.min_match
    /\ q.max_match = Unset \/ fn[n].cur <= q.max_match

Elements(seq) == {seq[i] : i \in 1..Len(seq)}

NoRepeat(seq) == \A i, j \in 1..Len(seq) : i # j => seq[i] # seq[j]

InOrder(a, b, strategy) ==
    IF strategy = "best_match_first"
    THEN fn[a].cur > fn[b].cur \/ (fn[a].cur = fn[b].cur /\ info[a].size <= info[b].size)
    ELSE info[a].size < info[b].size \/ (info[a].size = info[b].size /\ address[a] <= address[b])

\* C20: what get_candidate_batch returns is in (size, address) ascending order
\* under smallest_first, in current_match_pct descending then size ascending
\* order under best_match_first, and under any other strategy what it returns
\* under smallest_first; what get_next_candidate returns is the first element
\* get_candidate_batch returns for the same arguments.
C20_SelectionOrder ==
    /\ asked.op = "get_candidate_batch" =>
          /\ \A i, j \in 1..Len(candidates) :
                i < j => InOrder(candidates[i], candidates[j], asked.q.strategy)
          /\ asked.q.strategy \notin {"smallest_first", "best_match_first"} =>
                candidates = GetCandidateBatch([asked.q EXCEPT !.strategy = "smallest_first"])
    /\ asked.op = "get_next_candidate" =>
          candidates = SubSeq(GetCandidateBatch([asked.q EXCEPT !.limit = 3]), 1, Len(candidates))

\* best_match_first has returned three Functions, the first with the higher
\* current_match_pct although it is the largest.
C20_Witness ==
    /\ asked.op = "get_candidate_batch" /\ asked.q.strategy = "best_match_first"
    /\ Len(candidates) = 3
    /\ fn[candidates[1]].cur > fn[candidates[2]].cur
    /\ info[candidates[1]].size > info[candidates[2]].size
    /\ info[candidates[2]].size = info[candidates[3]].size

\* ---- batch properties

Ran == {n \in Names : job[n].ran}

RECURSIVE SumOver(_, _)
SumOver(S, field) ==
    IF S = {} THEN 0
    ELSE LET n == CHOOSE x \in S : TRUE IN job[n][field] + SumOver(S \ {n}, field)

\* ceil(B / c) for a positive c.
CeilDiv(B, c) == (B + c - 1) \div c

\* C13: with a budget set, a job leaves the budget check of _run_one only
\* while nobody holds cost_lock; it goes on only when the running cost is
\* below the budget, and when the running cost has reached the budget it
\* ends with termination_reason budget_exceeded, run_function (and so the
\* agent) is not called for it, no Attempt is written and its Function row
\* is unchanged; a job that ended so is never taken up again.
C13_BudgetSkip ==
    [][/\ \A w \in Workers :
          (pc[w] = "budget" /\ pc'[w] # "budget" /\ brun.budget # Unset) =>
             /\ cost_lock = "free"
             /\ IF batch.total_cost >= brun.budget
                THEN /\ job'[func[w]].state = "skipped"
                     /\ job'[func[w]].reason = "budget_exceeded"
                     /\ ~job'[func[w]].ran
                     /\ fn'[func[w]] = fn[func[w]]
                     /\ attempt_rows' = attempt_rows
                     /\ pc'[w] = "idle"
                ELSE pc'[w] = "announce" /\ job'[func[w]].state = "running"
       /\ \A n \in Names : job[n].state = "skipped" => job'[n] = job[n]]_vars

C13_Witness ==
    /\ brun.budget # Unset
    /\ \E n \in Names : job[n].state = "skipped" /\ fn[n].status = "pending"
    /\ \E n \in Names : job[n].state = "skipped" /\ attempt_rows[n] = 0

\* C14: in a sequential run with budget B > 0 where every job costs c, at
\* most ceil(B/c) jobs are run, so what the jobs cost in total stays below
\* B + c.
C14_SequentialBudgetBound ==
    (brun.workers <= 1 /\ brun.budget > 0) =>
       \/ \E n \in Ran : job[n].spent_cost # JobCost
       \/ /\ Cardinality(Ran) <= CeilDiv(brun.budget, JobCost)
          /\ SumOver(Ran, "spent_cost") < brun.budget + JobCost

\* C15: in a parallel run with budget B > 0 where every job costs c, the
\* number of jobs run exceeds ceil(B/c) by at most one.
C15_ParallelOvershoot ==
    (brun.workers > 1 /\ brun.budget > 0) =>
       \/ \E n \in Ran : job[n].spent_cost # JobCost
       \/ Cardinality(Ran) <= CeilDiv(brun.budget, JobCost) + 1

\* C16: when run_batch has returned, attempted is the number of jobs that
\* ran, total_cost and total_tokens are the sums of what those jobs cost
\* and used, and matched + failed <= attempted.
C16_TotalsAreSums ==
    brun.phase = "returned" =>
       /\ batch.attempted = Cardinality(Ran)
       /\ batch.total_cost = SumOver(Ran, "spent_cost")
       /\ batch.total_tokens = SumOver(Ran, "spent_tokens")
       /\ batch.matched + batch.failed <= batch.attempted

\* C17: an exception at any step of _run_one stays inside that job, which
\* is recorded as failed with termination_reason exception; the batch is
\* not aborted: when it has ended every candidate was run or budget-skipped.
C17_JobFailuresCaught ==
    /\ \A n \in Names : job[n].state # "raised"
    /\ \A n \in Names : job[n].reason = "exception" => n \in batch.errors
    /\ (brun.phase \in {"returned", "raised"} /\ brun.workers > 1) =>
          \A n \in Names : job[n].state \in {"none", "done", "skipped"}

\* C18: the batch thread's call, which hands the cancellation signal to
\* run_batch, starts the batch; once the signal is set no queued job is
\* dispatched; a dispatched job is not preempted.
C18_CooperativeCancel ==
    [][/\ (brun.origin = "web" /\ brun.phase = "thread") =>
              brun'.phase \in {"thread", "start"}
       /\ \A n \in Names :
              /\ (web.cancel_event /\ job[n].state = "queued") => job'[n].state = "queued"
              /\ job[n].state = "running" =>
                    job'[n].state \in {"running", "done", "skipped", "raised"}]_vars

\* The Functions the query of run_batch selects from, and the jobs that were
\* handed to _run_one.
BatchEligible == {n \in Names : QualifiesBatch(n, BatchQuery(brun.limit))}

Dispatched == {n \in Names : job[n].state \notin {"none", "queued"}}

\* C21: run_batch prefetches min(limit, number of eligible Functions)
\* candidates, no Function twice; only candidates become jobs and a job that
\* was dispatched is never queued again, so at most `limit` jobs are
\* dispatched and attempted <= the number of candidates; when run_batch has
\* returned from a run without budget that was not declined, attempted equals
\* that number.
C21_AtMostLimitJobs ==
    [][/\ (brun.phase = "start" /\ brun'.phase \in {"confirm", "returned"}) =>
              /\ Len(candidates') = (IF brun.limit < Cardinality(BatchEligible)
                                     THEN brun.limit ELSE Cardinality(BatchEligible))
              /\ NoRepeat(candidates')
              /\ Elements(candidates') \subseteq BatchEligible
       /\ \A n \in Names : n \in Dispatched => job'[n].state # "queued"
       /\ (Dispatched \subseteq Elements(candidates))'
       /\ (Cardinality(Dispatched) <= brun.limit)'
       /\ (batch.attempted <= Cardinality(Dispatched))'
       /\ (brun.phase = "returned" /\ brun.budget = Unset /\ brun.answer # "no" =>
              batch.attempted = Len(candidates))']_vars

\* A run without budget that has returned after `limit` jobs, with more
\* Functions eligible than the limit.
C21_Witness ==
    /\ brun.phase = "returned" /\ brun.budget = Unset
    /\ brun.limit = 2 /\ batch.attempted = 2
    /\ \A n \in Names : fn[n].exists
    /\ \E n \in Names : fn[n].status = "pending" /\ job[n].state = "none"

\* C22: when the confirmation is declined, or the query finds no candidate,
\* run_batch returns on that step with nothing changed in the Function and
\* Attempt tables or the source files; no job exists then or later, and the
\* totals are those of an empty BatchResult.
C22_NoJobWithoutApproval ==
    [][/\ (brun.phase = "confirm" /\ brun'.answer = "no") =>
              brun'.phase = "returned" /\ UNCHANGED <<fn, attempt_rows, file, job, batch>>
       /\ (brun.phase = "start" /\ brun'.phase \notin {"start", "raised"}
             /\ candidates' = <<>>) =>
              brun'.phase = "returned" /\ UNCHANGED <<fn, attempt_rows, file, job, batch>>
       /\ ((brun.answer = "no" \/ (brun.phase = "returned" /\ candidates = <<>>)) =>
              /\ batch = NoBatch
              /\ \A n \in Names : job[n] = NoJob
              /\ \A w \in Workers : pc[w] = "idle")']_vars

\* A declined batch over three pending candidates.
C22_Witness ==
    /\ brun.answer = "no" /\ brun.phase = "returned"
    /\ Len(candidates) = 3
    /\ \A n \in Names : fn[n].status = "pending" /\ fn[n].attempts = 0

\* C23: the step that ends a run whose agent produced a result adds exactly
\* one Attempt row of the run's Function together with the increment of its
\* attempts; on every step the Attempt rows of a Function only grow, and grow
\* by what its attempts counter grows; no Function row disappears.
C23_AppendOnlyHistory ==
    [][\A n \in Names :
          /\ (\E w \in Workers : RecordLeaves(w) /\ func[w] = n) =>
                 /\ attempt_rows'[n] = attempt_rows[n] + 1
                 /\ fn'[n].attempts = fn[n].attempts + 1
          /\ attempt_rows'[n] >= attempt_rows[n]
          /\ fn[n].exists =>
                 /\ fn'[n].exists
                 /\ attempt_rows'[n] - attempt_rows[n] = fn'[n].attempts - fn[n].attempts]_vars

\* ---- cost properties

\* C24: calculate_cost raises when the result names a model the pricing
\* configuration has no entry for, and returns 0 when the result names no
\* model.
C24_UnknownModelRaises ==
    calc.op = "calculate_cost" =>
       /\ calc.result.model = "" => ~calc.out.raised /\ calc.out.value = 0
       /\ (calc.result.model # "" /\ calc.result.model \notin PricedModels(calc.pricing)) =>
              calc.out.raised

\* A token count split 7 : 1 : 2 and priced.
SplitAndPriced(total_tokens, pricing) ==
    (total_tokens * 7) * pricing.input_per_million
    + (total_tokens * 1) * pricing.cached_input_per_million
    + (total_tokens * 2) * pricing.output_per_million

\* The estimate made from the Attempts `rows`: their mean when `usable`, or
\* size * 15 tokens.
EstimateFrom(size, rows, usable, pricing) ==
    SplitAndPriced(IF usable THEN (SumTokens(rows) * AvgScale) \div Len(rows)
                             ELSE size * 15 * AvgScale,
                   pricing)

\* The batch estimate is the sum of the estimates of its sizes.
BatchIsSum ==
    calc.op = "estimate_batch_cost" =>
       /\ calc.sizes = <<>> => calc.out = 0
       /\ Len(calc.sizes) = 1 =>
              calc.out = estimate_function_cost(calc.sizes[1], calc.history, calc.pricing)
       /\ Len(calc.sizes) = 2 =>
              calc.out = estimate_function_cost(calc.sizes[1], calc.history, calc.pricing)
                         + estimate_function_cost(calc.sizes[2], calc.history, calc.pricing)

TargetInstructions == SelectSeq(calc.target, IsInstruction)

CompiledInstructions == SelectSeq(calc.compiled, IsInstruction)

SameBytes ==
    /\ Len(TargetInstructions) = Len(CompiledInstructions)
    /\ \A i \in 1..Len(TargetInstructions) :
           TargetInstructions[i].hex = CompiledInstructions[i].hex

SameMnemonics ==
    /\ Len(TargetInstructions) = Len(CompiledInstructions)
    /\ \A i \in 1..Len(TargetInstructions) :
           TargetInstructions[i].mnemonic = CompiledInstructions[i].mnemonic

BytesOf(instructions) ==
    {instructions[i].hex[k] : i \in 1..Len(instructions), k \in 1..4}

\* C26: when the two instruction sequences have the same raw bytes in order,
\* whatever their text, compute_function_match gives
\* fuzzy_match_percent = structural_match_percent = 100.0 and an empty
\* mismatch_type.
C26_SameBytesScoreFull ==
    (calc.op = "compute_function_match" /\ SameBytes) =>
       /\ ~calc.out.raised
       /\ calc.out.value.fuzzy_match_percent = Hundred
       /\ calc.out.value.structural_match_percent = Hundred
       /\ calc.out.value.mismatch_type = ""

\* C27: both sequences empty gives 100% with size 0 and an empty
\* mismatch_type; exactly one empty gives 0% on both scores and
\* mismatch_type structural; size is always 4 times the number of target
\* instructions.
C27_DegenerateInputs ==
    calc.op = "compute_function_match" =>
       /\ ~calc.out.raised
       /\ calc.out.value.size = 4 * Len(TargetInstructions)
       /\ (TargetInstructions = <<>> /\ CompiledInstructions = <<>>) =>
              /\ calc.out.value.fuzzy_match_percent = Hundred
              /\ calc.out.value.size = 0
              /\ calc.out.value.mismatch_type = ""
       /\ ((TargetInstructions = <<>>) # (CompiledInstructions = <<>>)) =>
              /\ calc.out.value.fuzzy_match_percent = 0
              /\ calc.out.value.structural_match_percent = 0
              /\ calc.out.value.mismatch_type = "structural"

\* C28: for two non-empty sequences of different raw bytes, identical
\* mnemonic sequences give structural 100.0 and register_only, otherwise
\* different lengths give structural, otherwise opcode; never mixed.
C28_MismatchRule ==
    (/\ calc.op = "compute_function_match"
     /\ TargetInstructions # <<>> /\ CompiledInstructions # <<>> /\ ~SameBytes) =>
       /\ ~calc.out.raised
       /\ calc.out.value.mismatch_type # "mixed"
       /\ IF SameMnemonics
          THEN /\ calc.out.value.structural_match_percent = Hundred
               /\ calc.out.value.mismatch_type = "register_only"
          ELSE IF Len(TargetInstructions) # Len(CompiledInstructions)
          THEN calc.out.value.mismatch_type = "structural"
          ELSE calc.out.value.mismatch_type = "opcode"

\* C29: for two non-empty sequences that share no byte value,
\* fuzzy_match_percent < 50.0.
C29_DisjointBelowHalf ==
    (/\ calc.op = "compute_function_match"
     /\ TargetInstructions # <<>> /\ CompiledInstructions # <<>>
     /\ BytesOf(TargetInstructions) \cap BytesOf(CompiledInstructions) = {}) =>
       /\ ~calc.out.raised
       /\ 2 * calc.out.value.fuzzy_match_percent < Hundred

\* The blocks of a text: a block starts at a .fn line and ends with the next
\* .endfn line, or before the next .fn line, or at the end of the text.
Starts(lines) == {i \in 1..Len(lines) : lines[i].kind = "fn"}

EndOf(lines, i) ==
    LET stops == {j \in (i + 1)..Len(lines) : lines[j].kind \in {"fn", "endfn"}} IN
    IF stops = {} THEN Len(lines)
    ELSE LET j == CHOOSE x \in stops : \A y \in stops : x <= y IN
         IF lines[j].kind = "endfn" THEN j ELSE j - 1

NamesIn(lines) == {lines[i].name : i \in Starts(lines)}

LastStart(lines, name) ==
    CHOOSE i \in Starts(lines) :
        lines[i].name = name /\ \A j \in Starts(lines) : lines[j].name = name => j <= i

\* C30 as stated: a text of N blocks gives exactly N entries.
C30_OneEntryPerBlock ==
    calc.op = "extract_all_functions" =>
       Cardinality(DOMAIN calc.out) = Cardinality(Starts(calc.asm_text))

\* C30 (amended): the entries are keyed by the names of the blocks, one entry
\* per name, so N blocks of pairwise different names give exactly N entries;
\* the entry of a name is the last block of that name, from its .fn line to
\* its .endfn line or, without one, to the line before the next .fn or the
\* end of the text; it holds no line outside that block.
C30_EntriesAreBlocks ==
    calc.op = "extract_all_functions" =>
       /\ DOMAIN calc.out = NamesIn(calc.asm_text)
       /\ Cardinality(NamesIn(calc.asm_text)) = Cardinality(Starts(calc.asm_text)) =>
              Cardinality(DOMAIN calc.out) = Cardinality(Starts(calc.asm_text))
       /\ \A name \in NamesIn(calc.asm_text) :
              LET i == LastStart(calc.asm_text, name) IN
              calc.out[name] = SubSeq(calc.asm_text, i, EndOf(calc.asm_text, i))

\* Two blocks of different names, the first closed by its .endfn, the second
\* running to the end of the text without one: two entries.
C30_Witness ==
    /\ calc.op = "extract_all_functions"
    /\ Len(calc.asm_text) = 4
    /\ calc.asm_text[1] = Fn("fa") /\ calc.asm_text[2] = EndFn("fa")
    /\ calc.asm_text[3] = Fn("fb") /\ calc.asm_text[4].kind = "insn"
    /\ DOMAIN calc.out = {"fa", "fb"}
    /\ Len(calc.out["fb"]) = 2

\* ---- diff properties

\* The analysis of the call: what _align_and_classify returned, or what
\* get_function_diff rendered.
Analysis ==
    IF calc.op = "_align_and_classify" THEN calc.out
    ELSE _align_and_classify(TargetInstructions, CompiledInstructions)

Diffed == calc.op \in {"_align_and_classify", "get_function_diff"}

HasTarget(pair) == pair.target_hex # <<>>

HasCompiled(pair) == pair.compiled_hex # <<>>

AllMatch == <<[kind |-> "text", text |-> "All instructions match."]>>

Scoring == {"register", "opcode", "extra_target", "extra_compiled"}

\* C32: the rendering is exactly "All instructions match." if and only if
\* the analysis holds no register, opcode, extra_target or extra_compiled
\* pair; so it is for two identical sequences and for two sequences of the
\* same bytes that differ by their symbols only.
C32_AllMatchIffNoDifference ==
    calc.op = "get_function_diff" =>
       /\ (calc.out = AllMatch) <=> (CountPairs(Analysis.pairs, Scoring) = 0)
       /\ TargetInstructions = CompiledInstructions => calc.out = AllMatch
       /\ SameBytes => calc.out = AllMatch

\* Two instructions, the second with another symbol in the compiled
\* function: one match, one phantom, rendered as "All instructions match.".
C32_Witness ==
    /\ calc.op = "get_function_diff"
    /\ Len(Analysis.pairs) = 2
    /\ Analysis.pairs[1].mismatch_type = "match"
    /\ Analysis.pairs[2].mismatch_type = "phantom"
    /\ calc.out = AllMatch

Matching(pairs, i) == pairs[i].mismatch_type \in {"match", "phantom"}

\* The maximal run of match/phantom pairs that holds pair i.
RunStart(pairs, i) ==
    CHOOSE s \in 1..i :
        /\ \A k \in s..i : Matching(pairs, k)
        /\ s = 1 \/ ~Matching(pairs, s - 1)

RunEnd(pairs, i) ==
    CHOOSE e \in i..Len(pairs) :
        /\ \A k \in i..e : Matching(pairs, k)
        /\ e = Len(pairs) \/ ~Matching(pairs, e + 1)

\* The lines pair i is shown by.
ShownAs(pairs, i) ==
    LET p == pairs[i]
        context == [kind |-> "context", hex |-> p.target_hex, insn |-> p.target_insn]
        minus == [kind |-> "-", hex |-> p.target_hex, insn |-> p.target_insn]
        plus == [kind |-> "+", hex |-> p.compiled_hex, insn |-> p.compiled_insn]
    IN IF Matching(pairs, i)
       THEN LET s == RunStart(pairs, i)
                e == RunEnd(pairs, i)
                L == e - s + 1
            IN IF L <= 3 \/ i = s \/ i = e THEN <<context>>
               ELSE IF i = s + 1 THEN <<[kind |-> "collapsed", count |-> L - 2]>>
               ELSE <<>>
       ELSE IF p.mismatch_type \in {"register", "opcode"}
       THEN <<minus @@ [tag |-> p.mismatch_type], plus @@ [tag |-> ""]>>
       ELSE IF p.mismatch_type = "extra_target"
       THEN <<minus @@ [tag |-> "missing"]>>
       ELSE <<plus @@ [tag |-> "extra"]>>

RECURSIVE ShownFrom(_, _)
ShownFrom(pairs, i) ==
    IF i > Len(pairs) THEN <<>> ELSE ShownAs(pairs, i) \o ShownFrom(pairs, i + 1)

\* The lines of a rendering after its summary, phantom note and empty line.
Body(lines) ==
    LET first == CHOOSE k \in DOMAIN lines : lines[k] = [kind |-> "text", text |-> ""]
    IN SubSeq(lines, first + 1, Len(lines))

\* C33: in a rendering with differences, a maximal run of match/phantom
\* pairs of length <= 3 gives one line per pair, a longer run of length L
\* gives its first instruction, one placeholder of count L - 2 and its last
\* instruction, and every register, opcode, extra_target and extra_compiled
\* pair gives its tagged line or lines, all in the order of the pairs.
C33_RunsCollapsed ==
    (calc.op = "get_function_diff" /\ calc.out # AllMatch) =>
       Body(calc.out) = ShownFrom(Analysis.pairs, 1)

\* Four unchanged instructions and a fifth with another register: the run
\* of four is three lines, the placeholder counting 2.
C33_Witness ==
    /\ calc.op = "get_function_diff"
    /\ Len(Analysis.pairs) = 5
    /\ \A i \in 1..4 : Analysis.pairs[i].mismatch_type = "match"
    /\ Analysis.pairs[5].mismatch_type = "register"
    /\ Len(Body(calc.out)) = 5
    /\ Body(calc.out)[2] = [kind |-> "collapsed", count |-> 2]

\* ---- pool properties

\* The jobs being executed: the Functions the busy threads are running.
Executing == {func[w] : w \in {v \in Workers : ~Idle(v)}}

\* The thread waits at `with file_lock:` for a lock the thread v holds.
WaitsFor(w, v) ==
    /\ pc[w] = "acquire"
    /\ v # w
    /\ lock_owner[file_lock[w]] = v

C35_BatchReturns ==
    /\ [](\A w \in Workers : cost_lock = w => pc[w] = "update")
    /\ \A n \in Names :
          [](job[n].state = "running" => <>(job[n].state \in {"done", "skipped"}))
    /\ [](brun.phase \in {"seq", "par"} => <>(brun.phase = "returned"))

\* ---- rollback properties

\* Thread v is at work on source file s: between its snapshot and the end of
\* its `with file_lock:` block, or in the interrupt handler.
AtWorkOn(v, s) ==
    /\ source_file[func[v]] = s
    /\ pc[v] \in {"agent", "revert", "unlock", "int_reset", "int_restore"}

\* Every write of a source file is made by a job on that file while no other
\* job is at work on it; and a job takes its snapshot while no other job is
\* at work on its file.
Isolated ==
    /\ \A s \in Files :
          file'[s] # file[s] =>
              \E w \in Workers :
                  /\ AtWorkOn(w, s)
                  /\ \A v \in Workers \ {w} : ~AtWorkOn(v, s) /\ ~AtWorkOn(v, s)'
    /\ \A w \in Workers :
          (pc[w] = "snapshot" /\ pc'[w] = "agent") =>
              \A v \in Workers \ {w} : ~AtWorkOn(v, source_file[func[w]])

\* The revert step writes only after a run without a match, and what it
\* replaces is what the reverting job wrote itself.
OwnEditsOnly ==
    \A w \in Workers :
        LET s == source_file[func[w]] IN
        (pc[w] \in {"revert", "int_restore"} /\ pc'[w] # pc[w] /\ file'[s] # file[s]) =>
            ~result[w].matched /\ edited[w]

RunStarts(w) == pc[w] = "idle" /\ pc'[w] # "idle"

RunEnds(w) == pc[w] # "idle" /\ pc'[w] = "idle"

\* The run that ends in this step has used up one of the Function's
\* attempts, or has left the Function out of the candidate query.
Consumed(n) == fn'[n].attempts = fn[n].attempts + 1 \/ ~Eligible(fn'[n])

\* C37 as stated: only rows the candidate query selects (pending, attempts
\* below max_attempts) are run, never a Function another thread is running,
\* and every run uses up an attempt or ends the Function's eligibility, so a
\* Function is run at most max_attempts times.
C37_RetriesBounded ==
    [][\A w \in Workers :
          /\ RunStarts(w) =>
                /\ Eligible(fn[func'[w]])
                /\ \A v \in Workers \ {w} : ~Idle(v) => func[v] # func'[w]
          /\ RunEnds(w) => Consumed(func[w])]_vars

\* C37 amended: the same for every run that is not ended by an interruption;
\* a run the interrupt handler ends leaves the Function pending with
\* attempts unchanged.
C37_CompletedRunsBounded ==
    [][\A w \in Workers :
          /\ RunStarts(w) =>
                /\ Eligible(fn[func'[w]])
                /\ \A v \in Workers \ {w} : ~Idle(v) => func[v] # func'[w]
          /\ RunEnds(w) =>
                IF pc[w] = "int_restore"
                THEN /\ fn'[func[w]].status = "pending"
                     /\ fn'[func[w]].attempts = fn[func[w]].attempts
                ELSE Consumed(func[w])]_vars

\* A pool thread has run the agent on a candidate without a match and is at
\* the recording code: the Function is in_progress, so no query selects it,
\* while another Function is still a candidate.
C37_Witness ==
    \E w \in Workers, m \in Names :
        /\ pc[w] = "record" /\ mode[w] = "pool"
        /\ result[w].set /\ ~result[w].matched
        /\ fn[func[w]].status = "in_progress" /\ ~Eligible(fn[func[w]])
        /\ Eligible(fn[m])

\* ---- agent loop properties

\* C38: a run is matched only when one of its dispatched calls was a
\* verification that confirmed the target function's match; a rejecting
\* mark_complete or a MATCH line of another function does not make it matched.
C38_MatchedOnlyWhenVerified ==
    calc.for = "run_agent" => (calc.matched => calc.confirmed)

\* The five values of termination_reason (loop.py:38-39).
TerminationReasons == {"matched", "model_stopped", "max_iterations", "token_budget", "api_error"}

\* The loop has been left: no model call follows and the result is final.
LoopLeft == calc.at \in {"after", "returned"}

BatchThreads == {r \in Requests : calc.thread[r] = "running"}

Starting == {r \in Requests : calc.at[r] = "thread"}

\* C40: at most one batch runs at a time, a request answered 409 has started
\* nothing, a request that finds a batch under way is not let through, and
\* the running flag is false once no batch thread is alive or being started.
C40_OneBatchAtATime ==
    calc.for = "start_batch" =>
        /\ Cardinality(BatchThreads \cup Starting) <= 1
        /\ \A r \in Requests : calc.at[r] = "409" => calc.thread[r] = "none"
        /\ calc.running <=> BatchThreads \cup Starting # {}

====
